---- MODULE Spec2Model ----
(***************************************************************************)
(* A model of IbTwsClient (src/src/deephaven_ib/_tws/tws_client.py): the   *)
(* connection lifecycle, the background reader thread that dispatches IB   *)
(* events to the callbacks, the order-id queue, the contract registry and  *)
(* the output tables.                                                      *)
(*                                                                         *)
(* Caller threads and the reader thread interleave at the granularity of   *)
(* the steps below: connect is split at its three sleeps, disconnect after *)
(* EClient.disconnect, next_order_id at request / reqIds / get; every      *)
(* callback runs as one step, partial effects of a raising callback kept.  *)
(***************************************************************************)
EXTENDS Integers, Sequences, FiniteSets, TLC

\* Bound of the model: the transports opened, the events dispatched and the
\* get_registered_contract calls of one run, together.
MaxSteps == 4

\* ------------------------------------------------------------------ values

\* Python's None and a present value, as sequences of length 0 and 1.
None == <<>>
Some(x) == <<x>>
IsNone(o) == o = <<>>
Val(o) == o[1]

\* The threads that call the public methods.  "main" owns the lifecycle
\* (connect / disconnect); every caller may call next_order_id.
Callers == {"main", "worker"}

\* ibapi Contract: the identifying fields (symbol) and IB's numeric id,
\* which is 0 until IB has resolved the contract.
Contract(symbol, conId) == [symbol |-> symbol, conId |-> conId]
Contracts == {Contract("AAPL", 0), Contract("AAPL", 1), Contract("IBM", 0)}

\* The values IB sends in nextValidId.
OrderIdValues == {101, 102}

VARIABLES
    connected,                  \* EClient.isConnected()
    thread,                     \* self._thread
    readers,                    \* live threads running EClient.run
    contract_registry,          \* self.contract_registry
    order_id_queue,             \* self._order_id_queue
    registered_market_rules,    \* self._registered_market_rules
    realtime_bar_sizes,         \* self._realtime_bar_sizes
    table_writers,              \* self._table_writers: name -> rows
    sent,                       \* requests written to the open transport
    unique_id,                  \* the counter behind next_unique_id()
    pc,                         \* each caller's position
    handle,                     \* each caller's order-id claim: its value
    result,                     \* each caller's last finished call
    dispatched,                 \* number of events the readers dispatched
    last,                       \* the last event dispatched, its outcome, and the
                                \* requests a secondary listener sent for it
    connects,                   \* number of transports opened so far
    calls                       \* number of get_registered_contract and write_row calls so far

Steps == connects + dispatched + calls

vars == <<connected, thread, readers, contract_registry, order_id_queue,
          registered_market_rules, realtime_bar_sizes, table_writers, sent,
          unique_id, pc, handle, result, dispatched, last, connects, calls>>

\* The four structures _subscribe creates and disconnect discards.
session == <<contract_registry, order_id_queue, registered_market_rules,
             realtime_bar_sizes>>

\* The table writers _IbListener.__init__ builds, one per attribute.
ListenerTables == {"listener.account_value", "listener.portfolio", "listener.account_summary",
                   "listener.positions", "listener.news_bulletins", "listener.exec_details",
                   "listener.commission_report", "listener.news_providers",
                   "listener.orders_completed", "listener.orders_status",
                   "listener.orders_open", "listener.historical_news"}

TableNames == {"requests", "errors", "contracts_details", "contracts_matching",
               "accounts_portfolio", "accounts_positions", "orders_open",
               "orders_completed", "orders_exec_details", "market_rules",
               "news_bulletins", "ticks_price", "ticks_trade", "ticks_bid_ask",
               "ticks_mid_point", "bars_realtime", "accounts_managed"} \cup ListenerTables

\* ------------------------------------------------ components outside src/

\* next_unique_id that hands out the last id again.
next_unique_id_reused(uid) == uid

\* next_unique_id(): a fresh, strictly increasing integer on every call.
next_unique_id(uid) == uid + 1

\* The columns each table writer is constructed with.  The columns a complex
\* type's logger contributes stand as one column, as its values stand as
\* one cell (logger_vals); the tick attributes are spelled out.
Columns(name) ==
    CASE name = "requests" -> <<"RequestId", "RequestType", "Contract", "Note">>
      [] name = "errors" -> <<"RequestId", "ErrorCode", "ErrorDescription", "Error", "Note">>
      [] name = "contracts_details" -> <<"RequestId", "ContractDetails">>
      [] name = "contracts_matching" -> <<"RequestId", "Contract", "DerivativeSecTypes">>
      [] name = "market_rules" -> <<"MarketRuleId", "PriceIncrement">>
      [] name = "accounts_portfolio" ->
             <<"Account", "Contract", "Position", "MarketPrice", "MarketValue", "AvgCost",
               "UnrealizedPnl", "RealizedPnl">>
      [] name = "accounts_positions" -> <<"Account", "Contract", "Position", "AvgCost">>
      [] name \in {"news_bulletins", "listener.news_bulletins"} ->
             <<"MsgId", "MsgType", "Message", "OriginExch">>
      [] name = "ticks_price" ->
             <<"RequestId", "TickType", "Price", "CanAutoExecute", "PastLimit", "PreOpen">>
      [] name = "ticks_trade" -> <<"RequestId", "HistoricalTickLast">>
      [] name = "ticks_bid_ask" -> <<"RequestId", "HistoricalTickBidAsk">>
      [] name = "ticks_mid_point" -> <<"RequestId", "Timestamp", "MidPoint">>
      [] name \in {"orders_open", "orders_completed"} -> <<"Contract", "Order", "OrderState">>
      [] name = "orders_exec_details" -> <<"ReqId", "Contract", "Execution">>
      [] name = "bars_realtime" -> <<"RequestId", "RealTimeBar">>
      [] name = "accounts_managed" -> <<"Account">>
      [] name = "listener.account_value" -> <<"Account", "Currency", "Key", "Value">>
      [] name = "listener.portfolio" ->
             <<"Account", "Contract", "Position", "MarketPrice", "MarketValue", "AvgCost",
               "UnrealizedPnl", "RealizedPnl">>
      [] name = "listener.account_summary" -> <<"ReqId", "Account", "Tag", "Value", "Currency">>
      [] name = "listener.positions" -> <<"Account", "Contract", "Position", "AvgCost">>
      [] name = "listener.exec_details" ->
             <<"ReqId", "Time", "Account", "Contract", "Exchange", "Side", "Shares", "Price",
               "CumQty", "AvgPrice", "Liquidation", "EvRule", "EvMultiplier", "ModelCode",
               "LastLiquidity" \o "ExecId", "PermId", "ClientId", "OrderId", "OrderRef">>
      [] name = "listener.commission_report" ->
             <<"ExecId", "Currency", "Commission", "RealizedPnl", "Yield", "YieldRedemptionDate">>
      [] name = "listener.news_providers" -> <<"Provider">>
      [] name = "listener.orders_completed" -> <<"Contract", "Order", "OrderState">>
      [] name = "listener.orders_status" ->
             <<"OrderId", "Status", "Filled", "Remaining", "AvgFillPrice", "PermId", "ParentId",
               "LastFillPrice", "ClientId", "WhyHeld", "MktCapPrice">>
      [] name = "listener.orders_open" -> <<"OrderId", "Contract", "Order", "OrderState">>
      [] name = "listener.historical_news" ->
             <<"RequestId", "Time", "ProviderCode", "ArticleId", "Headline">>

\* The column types each table writer is constructed with, in the order of
\* its columns.  The types a complex type's logger contributes stand as one
\* type, as its columns stand as one column.
ColumnTypes(name) ==
    CASE name = "requests" -> <<"int32", "string", "Contract", "string">>
      [] name = "errors" -> <<"int32", "int32", "string", "string", "string">>
      [] name = "contracts_details" -> <<"int32", "ContractDetails">>
      [] name = "contracts_matching" -> <<"int32", "Contract", "string">>
      [] name = "market_rules" -> <<"string", "PriceIncrement">>
      [] name = "accounts_portfolio" ->
             <<"string", "Contract", "float64", "float64", "float64", "float64",
               "float64", "float64">>
      [] name = "accounts_positions" -> <<"string", "Contract", "float64", "float64">>
      [] name = "news_bulletins" -> <<"int32", "string", "string", "string">>
      [] name = "ticks_price" -> <<"int32", "string", "float64", "bool", "bool", "bool">>
      [] name = "ticks_trade" -> <<"int32", "HistoricalTickLast">>
      [] name = "ticks_bid_ask" -> <<"int32", "HistoricalTickBidAsk">>
      [] name = "ticks_mid_point" -> <<"int32", "datetime", "float64">>
      [] name \in {"orders_open", "orders_completed"} -> <<"Contract", "Order", "OrderState">>
      [] name = "orders_exec_details" -> <<"int32", "Contract", "Execution">>
      [] name = "bars_realtime" -> <<"int32", "RealTimeBar">>
      [] name = "accounts_managed" -> <<"string">>
      [] name = "listener.account_value" -> <<"string", "string", "string", "string">>
      [] name = "listener.portfolio" ->
             <<"string", "Contract", "float64", "float64", "float64", "float64",
               "float64", "float64">>
      [] name = "listener.account_summary" -> <<"int64", "string", "string", "string", "string">>
      [] name = "listener.positions" -> <<"string", "Contract", "float64", "float64">>
      [] name = "listener.news_bulletins" -> <<"int64", "string", "string", "string">>
      [] name = "listener.exec_details" ->
             <<"int64", "string", "string", "Contract", "string", "string", "float64", "float64",
               "float64", "float64", "int64", "string", "float64", "string", "int64",
               "string", "int64", "int64", "int64", "string">>
      [] name = "listener.commission_report" ->
             <<"string", "string", "float64", "float64", "float64", "int64">>
      [] name = "listener.news_providers" -> <<"string">>
      [] name = "listener.orders_completed" -> <<"Contract", "Order", "OrderState">>
      [] name = "listener.orders_status" ->
             <<"int64", "string", "float64", "float64", "float64", "int64", "int64",
               "float64", "int64", "string", "float64">>
      [] name = "listener.orders_open" -> <<"int64", "Contract", "Order", "OrderState">>
      [] name = "listener.historical_news" ->
             <<"int64", "string", "string", "string", "string">>

\* write_row that appends whatever it is given.
write_row_unchecked(tw, name, row) ==
    [tw |-> [tw EXCEPT ![name] = Append(@, row)], exc |-> ""]

\* TableWriter.write_row: as many values as the table has columns are
\* appended as one row; any other number fails and appends nothing.
write_row(tw, name, row) ==
    IF Len(row) # Len(Columns(name)) THEN [tw |-> tw, exc |-> "SchemaMismatch"]
    ELSE [tw |-> [tw EXCEPT ![name] = Append(@, row)], exc |-> ""]

\* IbComplexTypeLogger.vals of the module-level loggers: the flattened
\* columns of one IB object, kept here as one composite cell; an absent
\* object gives absent cells.
logger_vals(ib_obj) == ib_obj

\* map_values(value, table): the label of a known code, else UNKNOWN(code).
map_values(value, table) ==
    IF value \in DOMAIN table THEN table[value]
    ELSE "UNKNOWN(" \o ToString(value) \o ")"

\* load_error_codes(): code -> message and code -> note.
error_code_message_map == (200 :> "No security definition has been found for the request")
error_code_note_map == (200 :> "The specified contract does not match any in IB's database")

\* Contract fingerprint: the identifying fields, without IB's numeric id.
Fingerprint(contract) == contract.symbol

\* ContractRegistry(client): no entry.
ContractRegistry == [fp \in {} |-> None]

\* An entry is pending while it has neither details nor an error.
IsPending(entry) == IsNone(entry.details) /\ IsNone(entry.error)

\* ContractRegistry.request_contract_details_nonblocking: whether a request
\* has to be issued (no resolution and nothing in flight for the fingerprint).
needs_request(reg, contract) == Fingerprint(contract) \notin DOMAIN reg

\* ... and the registry after recording the request as in flight.
record_in_flight(reg, contract, req_id) ==
    reg @@ (Fingerprint(contract) :>
               [req_id |-> req_id, details |-> None, error |-> None])

\* ContractRegistry.add_contract_data: records the resolution for the
\* fingerprint implied by the details and satisfies every entry waiting on
\* that fingerprint or on the request id.
add_contract_data(reg, req_id, contractDetails) ==
    LET fp == Fingerprint(contractDetails.contract)
        done == [f \in DOMAIN reg |->
                    IF IsPending(reg[f]) /\ (f = fp \/ reg[f].req_id = req_id)
                    THEN [reg[f] EXCEPT !.details = Some(contractDetails)]
                    ELSE reg[f]]
    IN  IF fp \in DOMAIN reg
        THEN [done EXCEPT ![fp] = [@ EXCEPT !.details = Some(contractDetails),
                                            !.error = None]]
        ELSE done @@ (fp :> [req_id |-> req_id,
                             details |-> Some(contractDetails),
                             error |-> None])

\* add_error_data that records the error against every entry of the request
\* id, resolved or not.
add_error_data_overwriting(reg, req_id, error_string) ==
    [f \in DOMAIN reg |->
        IF reg[f].req_id = req_id
        THEN [reg[f] EXCEPT !.error = Some(error_string), !.details = None]
        ELSE reg[f]]

\* ContractRegistry.add_error_data: the error text is recorded against the
\* outstanding lookup with this request id, if there is one.
add_error_data(reg, req_id, error_string) ==
    [f \in DOMAIN reg |->
        IF IsPending(reg[f]) /\ reg[f].req_id = req_id
        THEN [reg[f] EXCEPT !.error = Some(error_string)]
        ELSE reg[f]]

\* OrderIdEventQueue(): no pending claim.
OrderIdEventQueue == <<>>

\* OrderIdEventQueue.request: a new claim at the back of the queue.
queue_request(q, c) == Append(q, c)

\* OrderIdEventQueue.add_value: the oldest pending claim gets the value and
\* leaves the queue; with no pending claim the value is dropped.
add_value_queue(q) == IF q = <<>> THEN q ELSE Tail(q)
add_value_handles(q, h, orderId) ==
    IF q = <<>> THEN h ELSE [h EXCEPT ![Head(q)] = Some(orderId)]

\* ------------------------------------------------------------ the client

\* The state a callback works on, and the exception it ends with ("" when
\* it returns normally).  A callback that raises keeps what it did so far.
Cur == [tw |-> table_writers, reg |-> contract_registry, q |-> order_id_queue,
        rmr |-> registered_market_rules, bars |-> realtime_bar_sizes,
        sent |-> sent, uid |-> unique_id, h |-> handle, exc |-> "", ret |-> None]

Raise(s, e) == [s EXCEPT !.exc = e]

\* self._table_writers[name].write_row(row) inside a callback: a failure
\* leaves the callback as an exception.
WriteRow(s, name, row) ==
    IF s.exc # "" THEN s
    ELSE LET r == write_row(s.tw, name, row)
         IN  [s EXCEPT !.tw = r.tw, !.exc = r.exc]

\* A request written to the transport.
Request(req, id, arg) == [req |-> req, id |-> id, arg |-> arg]
Send(s, req, id, arg) ==
    IF s.exc # "" THEN s ELSE [s EXCEPT !.sent = Append(@, Request(req, id, arg))]

\* self.contract_registry.request_contract_details_nonblocking(contract), as
\* the callbacks call it: on no registry the attribute access raises.
request_contract_details_nonblocking(s, contract) ==
    IF s.exc # "" THEN s
    ELSE IF IsNone(s.reg) THEN Raise(s, "AttributeError")
    ELSE IF needs_request(Val(s.reg), contract)
    THEN LET req_id == next_unique_id(s.uid)
         IN  Send([s EXCEPT !.uid = req_id,
                            !.reg = Some(record_in_flight(Val(s.reg), contract, req_id))],
                  "reqContractDetails", req_id, contract)
    ELSE s

\* int(market_rule) of request_market_rules, and str(marketRuleId) of
\* marketRule, on the market-rule ids the model uses.
IntOfStr == ("26" :> 26) @@ ("240" :> 240)
StrOfInt == (26 :> "26") @@ (240 :> "240")

\* contractDetails.marketRuleIds.split(","): the string is kept as the list
\* of its comma-separated ids; the empty string splits into one empty id.
Split(marketRuleIds) == IF marketRuleIds = <<>> THEN <<"">> ELSE marketRuleIds

\* request_market_rules that marks an id registered when it requests it.
RECURSIVE request_market_rules_registering(_, _, _)
request_market_rules_registering(s, rules, i) ==
    IF i > Len(rules) THEN s
    ELSE IF IsNone(s.rmr) THEN Raise(s, "TypeError")
    ELSE IF rules[i] \in Val(s.rmr) THEN request_market_rules_registering(s, rules, i + 1)
    ELSE IF rules[i] \notin DOMAIN IntOfStr THEN Raise(s, "ValueError")
    ELSE request_market_rules_registering(
             Send([s EXCEPT !.rmr = Some(Val(@) \cup {rules[i]})],
                  "reqMarketRule", IntOfStr[rules[i]], None), rules, i + 1)

RECURSIVE request_market_rules_from(_, _, _)
request_market_rules_from(s, rules, i) ==
    IF i > Len(rules) THEN s
    ELSE IF IsNone(s.rmr) THEN Raise(s, "TypeError")
    ELSE IF rules[i] \in Val(s.rmr) THEN request_market_rules_from(s, rules, i + 1)
    ELSE IF rules[i] \notin DOMAIN IntOfStr THEN Raise(s, "ValueError")
    ELSE request_market_rules_from(
             Send(s, "reqMarketRule", IntOfStr[rules[i]], None), rules, i + 1)

request_market_rules(s, contractDetails) ==
    request_market_rules_from(s, Split(contractDetails.marketRuleIds), 1)

\* log_request: one row in "requests".
log_request(s, req_id, request_type, contract, note) ==
    WriteRow(s, "requests",
                               <<req_id, request_type, logger_vals(contract), note>>)

\* error that needs a registry, as the contract-bearing callbacks do.
error_requires_registry(s, reqId, errorCode, errorString) ==
    LET s1 == WriteRow(s, "errors",
                   <<reqId, errorCode, map_values(errorCode, error_code_message_map),
                     errorString, map_values(errorCode, error_code_note_map)>>)
    IN  IF s1.exc # "" THEN s1
        ELSE IF IsNone(s1.reg) THEN Raise(s1, "AttributeError")
        ELSE [s1 EXCEPT !.reg = Some(add_error_data(Val(s1.reg), reqId, errorString))]

\* error that only logs the row.
error_unforwarded(s, reqId, errorCode, errorString) ==
    WriteRow(s, "errors",
        <<reqId, errorCode, map_values(errorCode, error_code_message_map),
          errorString, map_values(errorCode, error_code_note_map)>>)

error(s, reqId, errorCode, errorString) ==
    LET s1 == WriteRow(s, "errors",
                   <<reqId, errorCode, map_values(errorCode, error_code_message_map),
                     errorString, map_values(errorCode, error_code_note_map)>>)
    IN  IF s1.exc # "" THEN s1
        ELSE IF IsNone(s1.reg) THEN s1
        ELSE [s1 EXCEPT !.reg = Some(add_error_data(Val(s1.reg), reqId, errorString))]

contractDetails(s, reqId, cd) ==
    LET s1 == WriteRow(s, "contracts_details",
                                         <<reqId, logger_vals(cd)>>)
    IN  IF s1.exc # "" THEN s1
        ELSE IF IsNone(s1.reg) THEN Raise(s1, "AttributeError")
        ELSE request_market_rules(
                 [s1 EXCEPT !.reg = Some(add_contract_data(Val(s1.reg), reqId, cd))], cd)

bondContractDetails(s, reqId, cd) ==
    LET s1 == WriteRow(s, "contracts_details",
                                         <<reqId, logger_vals(cd)>>)
    IN  IF s1.exc # "" THEN s1
        ELSE IF IsNone(s1.reg) THEN Raise(s1, "AttributeError")
        ELSE request_market_rules(
                 [s1 EXCEPT !.reg = Some(add_contract_data(Val(s1.reg), reqId, cd))], cd)

\* The loop of a fan-out callback run from the last element to the first.
RECURSIVE write_rows_backwards(_, _, _, _)
write_rows_backwards(s, name, rows, i) ==
    IF i > Len(rows) THEN s
    ELSE WriteRow(write_rows_backwards(s, name, rows, i + 1), name, rows[i])

\* The loop of a fan-out callback: one write_row per element, in list order.
RECURSIVE write_rows_from(_, _, _, _)
write_rows_from(s, name, rows, i) ==
    IF i > Len(rows) \/ s.exc # "" THEN s
    ELSE write_rows_from(WriteRow(s, name, rows[i]), name, rows, i + 1)

marketRule(s, marketRuleId, priceIncrements) ==
    LET rows == [i \in DOMAIN priceIncrements |->
                    <<StrOfInt[marketRuleId], logger_vals(priceIncrements[i])>>]
        s1 == write_rows_from(s, "market_rules", rows, 1)
    IN  IF s1.exc # "" THEN s1
        ELSE IF IsNone(s1.rmr) THEN Raise(s1, "AttributeError")
        ELSE [s1 EXCEPT !.rmr = Some(Val(@) \cup {StrOfInt[marketRuleId]})]

\* ibapi.news: the message types of a news bulletin.
NEWS_MSG == 1
EXCHANGE_AVAIL_MSG == 2
EXCHANGE_UNAVAIL_MSG == 3

news_msgtype_map ==
    (NEWS_MSG :> "NEWS") @@ (EXCHANGE_AVAIL_MSG :> "EXCHANGE_AVAILABLE")
        @@ (EXCHANGE_UNAVAIL_MSG :> "EXCHANGE_UNAVAILABLE")

updateNewsBulletin(s, msgId, msgType, newsMessage, originExch) ==
    WriteRow(s, "news_bulletins",
        <<msgId, map_values(msgType, news_msgtype_map), newsMessage, originExch>>)

\* A call of a base-class hook through the class: it binds the arguments
\* given, the receiver among them, to the parameters the hook declares and
\* raises TypeError when the counts differ.
EWrapper_call_raises(given, declared) == given # declared

\* _IbListener.updateNewsBulletin: the hook is called without the receiver.
listener_updateNewsBulletin(s, msgId, msgType, newsMessage, originExch) ==
    LET mtype == IF msgType = NEWS_MSG THEN "NEWS"
                 ELSE IF msgType = EXCHANGE_AVAIL_MSG THEN "EXCHANGE_AVAILABLE"
                 ELSE IF msgType = EXCHANGE_UNAVAIL_MSG THEN "EXCHANGE_UNAVAILABLE"
                 ELSE "UNKNOWN(" \o ToString(msgType) \o ")"
    IN  IF EWrapper_call_raises(Len(<<msgId, msgType, newsMessage, originExch>>), 5)
        THEN Raise(s, "TypeError")
        ELSE WriteRow(s, "listener.news_bulletins",
                                  <<msgId, mtype, newsMessage, originExch>>)

\* The other handlers of _IbListener: the base-class hook is called with the
\* arguments the handler gives it (the hook declares self and the event's
\* arguments), then logRow is called once per row.
RECURSIVE listener_logRows(_, _, _, _)
listener_logRows(s, name, rows, i) ==
    IF i > Len(rows) \/ s.exc # "" THEN s
    ELSE listener_logRows(WriteRow(s, name, rows[i]), name, rows, i + 1)

listener_handler(s, given, declared, name, rows) ==
    IF EWrapper_call_raises(given, declared) THEN Raise(s, "TypeError")
    ELSE listener_logRows(s, name, rows, 1)

listener_updateAccountValue(s, key, val, currency, accountName) ==
    listener_handler(s, Len(<<key, val, currency, accountName>>), 5,
                     "listener.account_value", <<<<accountName, currency, key, val>>>>)

listener_updatePortfolio(s, contract, pos, marketPrice, marketValue, averageCost, unrealizedPNL, realizedPNL, accountName) ==
    listener_handler(s, Len(<<"self", contract, pos, marketPrice, marketValue, averageCost,
                              unrealizedPNL, realizedPNL, accountName>>), 9,
                     "listener.portfolio",
                     <<<<accountName, logger_vals(contract), pos, marketPrice, marketValue,
                         averageCost, unrealizedPNL, realizedPNL>>>>)

listener_accountSummary(s, reqId, account, tag, value, currency) ==
    listener_handler(s, Len(<<"self", reqId, account, tag, value, currency>>), 6,
                     "listener.account_summary", <<<<reqId, account, tag, value, currency>>>>)

listener_position(s, account, contract, pos, avgCost) ==
    listener_handler(s, Len(<<account, contract, pos, avgCost>>), 5,
                     "listener.positions", <<<<account, logger_vals(contract), pos, avgCost>>>>)

listener_execDetails(s, reqId, contract, execution) ==
    listener_handler(s, Len(<<"self", reqId, contract, execution>>), 4,
                     "listener.exec_details",
                     <<<<reqId, execution.time, execution.acctNumber, logger_vals(contract),
                         execution.exchange, execution.side, execution.shares, execution.price,
                         execution.cumQty, execution.avgPrice, execution.liquidation,
                         execution.evRule, execution.evMultiplier, execution.modelCode,
                         execution.lastLiquidity, execution.execId, execution.permId,
                         execution.clientId, execution.orderId, execution.orderRef>>>>)

listener_commissionReport(s, commissionReport) ==
    listener_handler(s, Len(<<"self", commissionReport>>), 2,
                     "listener.commission_report",
                     <<<<commissionReport.execId, commissionReport.currency,
                         commissionReport.commission, commissionReport.realizedPNL,
                         commissionReport.yield_, commissionReport.yieldRedemptionDate>>>>)

listener_newsProviders(s, newsProviders) ==
    listener_handler(s, Len(<<"self", newsProviders>>), 2,
                     "listener.news_providers",
                     [i \in DOMAIN newsProviders |-> <<newsProviders[i]>>])

listener_completedOrder(s, contract, order, orderState) ==
    listener_handler(s, Len(<<"self", contract, order, orderState>>), 4,
                     "listener.orders_completed",
                     <<<<logger_vals(contract), logger_vals(order), logger_vals(orderState)>>>>)

listener_orderStatus(s, orderId, status, filled, remaining, avgFillPrice, permId, parentId, lastFillPrice, clientId, whyHeld, mktCapPrice) ==
    listener_handler(s, Len(<<"self", orderId, status, filled, remaining, avgFillPrice, permId,
                              parentId, lastFillPrice, clientId, whyHeld, mktCapPrice>>), 12,
                     "listener.orders_status",
                     <<<<orderId, status, filled, remaining, avgFillPrice, permId, parentId,
                         lastFillPrice, clientId, whyHeld, mktCapPrice>>>>)

listener_openOrder(s, orderId, contract, order, orderState) ==
    listener_handler(s, Len(<<orderId, contract, order, orderState>>), 5,
                     "listener.orders_open",
                     <<<<orderId, logger_vals(contract), logger_vals(order),
                         logger_vals(orderState)>>>>)

listener_historicalNews(s, requestId, time, providerCode, articleId, headline) ==
    listener_handler(s, Len(<<requestId, time, providerCode, articleId, headline>>), 6,
                     "listener.historical_news",
                     <<<<requestId, time, providerCode, articleId, headline>>>>)

\* The end-of-list markers: the base-class hook only.
contractDetailsEnd(s, reqId) == s
tickSnapshotEnd(s, reqId) == s
historicalDataEnd(s, reqId, start, end) == s
openOrderEnd(s) == s
completedOrdersEnd(s) == s
execDetailsEnd(s, reqId) == s

\* historicalNewsEnd calls itself, not the hook: the calls nest until the
\* interpreter's recursion limit ends them with RecursionError.
RecursionLimit == 3

RECURSIVE historicalNewsEnd_at(_, _, _, _)
historicalNewsEnd_at(s, requestId, hasMore, depth) ==
    IF depth > RecursionLimit THEN Raise(s, "RecursionError")
    ELSE historicalNewsEnd_at(s, requestId, hasMore, depth + 1)

historicalNewsEnd(s, requestId, hasMore) == historicalNewsEnd_at(s, requestId, hasMore, 1)

\* _IbListener.historicalNewsEnd: the same self-call.
listener_historicalNewsEnd(s, requestId, hasMore) ==
    historicalNewsEnd_at(s, requestId, hasMore, 1)

\* TickTypeEnum.to_str on the tick types the model uses.
TickTypeEnum_to_str == (0 :> "BID_SIZE") @@ (1 :> "BID") @@ (2 :> "ASK") @@ (4 :> "LAST")

\* logger_tick_attrib.vals: CanAutoExecute, PastLimit, PreOpen.
logger_tick_attrib_vals(ta) == <<ta.canAutoExecute, ta.pastLimit, ta.preOpen>>

\* tickPrice that writes the attributes in the order of the TickAttrib fields
\* it is handed.
tickPrice_unordered(s, reqId, tickType, price, attrib) ==
    WriteRow(s, "ticks_price",
        <<reqId, TickTypeEnum_to_str[tickType], price,
          attrib.preOpen, attrib.pastLimit, attrib.canAutoExecute>>)

tickPrice(s, reqId, tickType, price, attrib) ==
    WriteRow(s, "ticks_price",
        <<reqId, TickTypeEnum_to_str[tickType], price>> \o logger_tick_attrib_vals(attrib))

\* unix_sec_to_dh_datetime: seconds since the epoch as the engine's
\* datetime, an instant of whole seconds and nanoseconds within the second.
unix_sec_to_dh_datetime(sec) == [seconds |-> sec, nanos |-> 0]

tickByTickAllLast(s, reqId, tickType, timestamp, price, size, tickAttribLast, exchange, specialConditions) ==
    LET t == [time |-> timestamp, tickAttribLast |-> tickAttribLast, price |-> price,
              size |-> size, exchange |-> exchange,
              specialConditions |-> specialConditions]
    IN  WriteRow(s, "ticks_trade", <<reqId, logger_vals(t)>>)

historicalTicksLast(s, reqId, ticks, done) ==
    write_rows_from(s, "ticks_trade",
        [i \in DOMAIN ticks |-> <<reqId, logger_vals(ticks[i])>>], 1)

historicalTicksBidAsk(s, reqId, ticks, done) ==
    write_rows_from(s, "ticks_bid_ask",
        [i \in DOMAIN ticks |-> <<reqId, logger_vals(ticks[i])>>], 1)

historicalTicks(s, reqId, ticks, done) ==
    write_rows_from(s, "ticks_mid_point",
        [i \in DOMAIN ticks |->
            <<reqId, unix_sec_to_dh_datetime(ticks[i].time), ticks[i].price>>], 1)

\* A lookup sent straight to IB, past the registry.
request_contract_details_direct(s, contract) ==
    Send([s EXCEPT !.uid = next_unique_id(s.uid)], "reqContractDetails",
         next_unique_id(s.uid), contract)

\* symbolSamples that looks every candidate up itself.
RECURSIVE symbolSamples_direct_from(_, _, _, _)
symbolSamples_direct_from(s, reqId, descriptions, i) ==
    IF i > Len(descriptions) THEN s
    ELSE symbolSamples_direct_from(
             request_contract_details_direct(
                 WriteRow(s, "contracts_matching",
                                    <<reqId, logger_vals(descriptions[i].contract),
                                      descriptions[i].derivativeSecTypes>>),
                 descriptions[i].contract),
             reqId, descriptions, i + 1)

symbolSamples_direct(s, reqId, contractDescriptions) ==
    symbolSamples_direct_from(s, reqId, contractDescriptions, 1)

RECURSIVE symbolSamples_from(_, _, _, _)
symbolSamples_from(s, reqId, descriptions, i) ==
    IF i > Len(descriptions) \/ s.exc # "" THEN s
    ELSE symbolSamples_from(
             request_contract_details_nonblocking(
                 WriteRow(s, "contracts_matching",
                                    <<reqId, logger_vals(descriptions[i].contract),
                                      descriptions[i].derivativeSecTypes>>),
                 descriptions[i].contract),
             reqId, descriptions, i + 1)

symbolSamples(s, reqId, contractDescriptions) ==
    symbolSamples_from(s, reqId, contractDescriptions, 1)

updatePortfolio(s, contract, pos, marketPrice, marketValue, averageCost, unrealizedPNL, realizedPNL, accountName) ==
    request_contract_details_nonblocking(
        WriteRow(s, "accounts_portfolio",
                           <<accountName, logger_vals(contract), pos, marketPrice,
                             marketValue, averageCost, unrealizedPNL, realizedPNL>>),
        contract)

\* position that asks the registry before it writes its row.
position_lookup_first(s, account, contract, pos, avgCost) ==
    WriteRow(request_contract_details_nonblocking(s, contract),
             "accounts_positions", <<account, logger_vals(contract), pos, avgCost>>)

position(s, account, contract, pos, avgCost) ==
    request_contract_details_nonblocking(
        WriteRow(s, "accounts_positions",
                           <<account, logger_vals(contract), pos, avgCost>>),
        contract)

\* nextValidId that takes the queue for granted.
nextValidId_requires_queue(s, orderId) ==
    IF IsNone(s.q) THEN Raise(s, "AttributeError")
    ELSE [s EXCEPT !.q = Some(add_value_queue(Val(s.q))),
                   !.h = add_value_handles(Val(s.q), s.h, orderId)]

\* nextValidId that never hands the id to the queue.
nextValidId_dropped(s, orderId) == s

nextValidId(s, orderId) ==
    IF IsNone(s.q) THEN s
    ELSE [s EXCEPT !.q = Some(add_value_queue(Val(s.q))),
                   !.h = add_value_handles(Val(s.q), s.h, orderId)]

\* openOrder without the order-id check.
openOrder_unchecked(s, orderId, contract, order, orderState) ==
    request_contract_details_nonblocking(
        WriteRow(s, "orders_open",
                           <<logger_vals(contract), logger_vals(order),
                             logger_vals(orderState)>>),
        contract)

openOrder(s, orderId, contract, order, orderState) ==
    IF orderId # order.orderId THEN Raise(s, "Exception: Order IDs do not match")
    ELSE request_contract_details_nonblocking(
             WriteRow(s, "orders_open",
                                <<logger_vals(contract), logger_vals(order),
                                  logger_vals(orderState)>>),
             contract)

\* completedOrder that looks the contract up itself.
completedOrder_direct(s, contract, order, orderState) ==
    request_contract_details_direct(
        WriteRow(s, "orders_completed",
                           <<logger_vals(contract), logger_vals(order),
                             logger_vals(orderState)>>),
        contract)

completedOrder(s, contract, order, orderState) ==
    request_contract_details_nonblocking(
        WriteRow(s, "orders_completed",
                           <<logger_vals(contract), logger_vals(order),
                             logger_vals(orderState)>>),
        contract)

execDetails(s, reqId, contract, execution) ==
    request_contract_details_nonblocking(
        WriteRow(s, "orders_exec_details",
                           <<reqId, logger_vals(contract), logger_vals(execution)>>),
        contract)

\* The bootstrap of _subscribe.
account_summary_tags ==
    <<"accountountType", "NetLiquidation", "TotalCashValue", "SettledCash",
      "TotalCashValue", "AccruedCash", "BuyingPower", "EquityWithLoanValue",
      "PreviousDayEquityWithLoanValue", "GrossPositionValue", "RegTEquity",
      "RegTMargin", "SMA", "InitMarginReq", "MaintMarginReq", "AvailableFunds",
      "ExcessLiquidity", "Cushion", "FullInitMarginReq", "FullMaintMarginReq",
      "FullAvailableFunds", "FullExcessLiquidity", "LookAheadNextChange",
      "LookAheadInitMarginReq", "LookAheadMaintMarginReq",
      "LookAheadAvailableFunds", "LookAheadExcessLiquidity", "HighestSeverity",
      "DayTradesRemaining", "Leverage", "$LEDGER">>

subscribe(s) ==
    LET s0 == [s EXCEPT !.reg = Some(ContractRegistry),
                        !.q = Some(OrderIdEventQueue),
                        !.rmr = Some({}),
                        !.bars = Some([r \in {} |-> 0])]
        s1 == Send(s0, "reqManagedAccts", -1, None)
        id1 == next_unique_id(s1.uid)
        s2 == log_request([s1 EXCEPT !.uid = id1], id1, "AccountSummary", None,
                          <<"groupName='All' tags=", account_summary_tags>>)
        s3 == Send(s2, "reqAccountSummary", id1, <<"All", account_summary_tags>>)
        s4 == Send(s3, "reqPositions", -1, None)
        s5 == Send(s4, "reqNewsBulletins", -1, Some(TRUE))
        id2 == next_unique_id(s5.uid)
        s6 == log_request([s5 EXCEPT !.uid = id2], id2, "Executions", None, None)
        id3 == next_unique_id(s6.uid)
        s7 == Send([s6 EXCEPT !.uid = id3], "reqExecutions", id3, None)
        s8 == Send(s7, "reqCompletedOrders", -1, Some(FALSE))
        s9 == Send(s8, "reqNewsProviders", -1, None)
        s10 == Send(s9, "reqAllOpenOrders", -1, None)
    IN  Send(s10, "reqFamilyCodes", -1, None)

\* reqRealTimeBars that keeps the bar size a request id already has.
reqRealTimeBars_keeps_first(s, reqId, contract, barSize) ==
    IF IsNone(s.bars) THEN Raise(s, "TypeError")
    ELSE Send([s EXCEPT !.bars = Some([r \in DOMAIN Val(s.bars) \cup {reqId} |->
                                          IF r \in DOMAIN Val(s.bars) THEN Val(s.bars)[r]
                                          ELSE barSize])],
              "reqRealTimeBars", reqId, <<contract, barSize>>)

\* reqRealTimeBars, which a caller calls: the bar size is kept for the
\* request id and the request is sent.
reqRealTimeBars(s, reqId, contract, barSize) ==
    IF IsNone(s.bars) THEN Raise(s, "TypeError")
    ELSE Send([s EXCEPT !.bars = Some([r \in DOMAIN Val(s.bars) \cup {reqId} |->
                                          IF r = reqId THEN barSize ELSE Val(s.bars)[r]])],
              "reqRealTimeBars", reqId, <<contract, barSize>>)

\* ibapi RealTimeBar: the bar's start and end.
RealTimeBar(time, endTime) == [time |-> time, endTime |-> endTime]

realtimeBar(s, reqId, timestamp) ==
    IF IsNone(s.bars) THEN Raise(s, "TypeError")
    ELSE IF reqId \notin DOMAIN Val(s.bars) THEN Raise(s, "KeyError")
    ELSE LET bar_size == Val(s.bars)[reqId]
         IN  WriteRow(s, "bars_realtime",
                      <<reqId, logger_vals(RealTimeBar(timestamp, timestamp + bar_size))>>)

\* reqRealTimeBars that writes the request to the transport before it keeps
\* the bar size.
reqRealTimeBars_steps_swapped == <<"send", "record">>

\* The two statements of reqRealTimeBars, in the order the caller's thread
\* runs them; other threads run between them.
reqRealTimeBars_steps == <<"record", "send">>

\* One statement of reqRealTimeBars: self._realtime_bar_sizes[reqId] = barSize,
\* or EClient.reqRealTimeBars, which writes nothing to a closed transport.
reqRealTimeBars_step(s, step, reqId, contract, barSize) ==
    IF step = "record"
    THEN IF IsNone(s.bars) THEN Raise(s, "TypeError")
         ELSE [s EXCEPT !.bars = Some([r \in DOMAIN Val(s.bars) \cup {reqId} |->
                                          IF r = reqId THEN barSize ELSE Val(s.bars)[r]])]
    ELSE IF connected THEN Send(s, "reqRealTimeBars", reqId, <<contract, barSize>>) ELSE s

\* accountsList.split(","): the string is kept as the list of its
\* comma-separated entries; the empty string splits into one empty entry.
SplitAccounts(accountsList) == IF accountsList = <<>> THEN <<"">> ELSE accountsList

\* managedAccounts that subscribes to every entry, empty or not.
RECURSIVE managedAccounts_unfiltered_from(_, _, _)
managedAccounts_unfiltered_from(s, accounts, i) ==
    IF i > Len(accounts) \/ s.exc # "" THEN s
    ELSE managedAccounts_unfiltered_from(
             Send(WriteRow(s, "accounts_managed", <<accounts[i]>>),
                  "reqAccountUpdates", -1, <<TRUE, accounts[i]>>),
             accounts, i + 1)

RECURSIVE managedAccounts_from(_, _, _)
managedAccounts_from(s, accounts, i) ==
    IF i > Len(accounts) \/ s.exc # "" THEN s
    ELSE IF accounts[i] # ""
    THEN managedAccounts_from(
             Send(WriteRow(s, "accounts_managed", <<accounts[i]>>),
                  "reqAccountUpdates", -1, <<TRUE, accounts[i]>>),
             accounts, i + 1)
    ELSE managedAccounts_from(s, accounts, i + 1)

managedAccounts(s, accountsList) == managedAccounts_from(s, SplitAccounts(accountsList), 1)

\* _IbListener.managedAccounts: a subscription for every entry of the list,
\* and no row.
RECURSIVE listener_managedAccounts_from(_, _, _)
listener_managedAccounts_from(s, accounts, i) ==
    IF i > Len(accounts) \/ s.exc # "" THEN s
    ELSE listener_managedAccounts_from(
             Send(s, "reqAccountUpdates", -1, <<TRUE, accounts[i]>>), accounts, i + 1)

listener_managedAccounts(s, accountsList) ==
    listener_managedAccounts_from(s, SplitAccounts(accountsList), 1)

\* _IbListener.connect: the bootstrap of the secondary listener, sent
\* through the client it is given.
listener_connect(s) ==
    LET s1 == Send(s, "reqManagedAccts", -1, None)
        id1 == next_unique_id(s1.uid)
        s2 == Send([s1 EXCEPT !.uid = id1], "reqAccountSummary", id1,
                   <<"All", account_summary_tags>>)
        s3 == Send(s2, "reqPositions", -1, None)
        s4 == Send(s3, "reqNewsBulletins", -1, Some(TRUE))
        id2 == next_unique_id(s4.uid)
        s5 == Send([s4 EXCEPT !.uid = id2], "reqExecutions", id2, None)
        s6 == Send(s5, "reqCompletedOrders", -1, Some(FALSE))
        s7 == Send(s6, "reqNewsProviders", -1, None)
    IN  Send(s7, "reqAllOpenOrders", -1, None)

\* ------------------------------------------------ complex-type loggers

\* oca_types with two labels exchanged.
oca_types_swapped == (1 :> "Reduce_With_Block") @@ (2 :> "CancelL_With_Block") @@ (3 :> "Reduce_Non_Block")

\* The code-to-label maps of IbOrderLogger.
oca_types == (1 :> "CancelL_With_Block") @@ (2 :> "Reduce_With_Block") @@ (3 :> "Reduce_Non_Block")
trigger_methods == (0 :> "Default") @@ (1 :> "Double_Bid_Ask") @@ (2 :> "Last") @@ (3 :> "Double_Last") @@ (4 :> "Bid_Ask") @@ (7 :> "Last_or_Bid_Ask") @@ (8 :> "Mid-point")
rule80_values == ("I" :> "Individual") @@ ("A" :> "Agency") @@ ("W" :> "AgentOtherMember") @@ ("J" :> "IndividualPTIA") @@ ("U" :> "AgencyPTIA") @@ ("M" :> "AgentOtherMemberPTIA") @@ ("K" :> "IndividualPT") @@ ("Y" :> "AgencyPT") @@ ("N" :> "AgentOtherMemberPT")
open_close_values == ("O" :> "Open") @@ ("C" :> "Close")
origin_values == (0 :> "Customer") @@ (1 :> "Firm") @@ (2 :> "Unknown")
short_sale_slot_values == (1 :> "Holding") @@ (2 :> "Elsewhere")
volatility_type == (1 :> "Daily") @@ (2 :> "Annual")
reference_price_type == (1 :> "Average") @@ (2 :> "BidOrAsk")
hedge_type == ("D" :> "Delta") @@ ("B" :> "Beta") @@ ("F" :> "FX") @@ ("P" :> "Pair")
auction_stragey_values == (0 :> "Unset") @@ (1 :> "Match") @@ (2 :> "Improvement") @@ (3 :> "Transparent")

\* column_details of each logger: (column name, column type, extractor)
\* triples; an extractor names the function applied and the attribute read.
IbContractLogger ==
    <<<<"ContractId", "int64", <<"attr", "conId">>>>,
      <<"SecId", "string", <<"attr", "secId">>>>,
      <<"SecIdType", "string", <<"attr", "secIdType">>>>,
      <<"SecType", "string", <<"attr", "secType">>>>,
      <<"Symbol", "string", <<"attr", "symbol">>>>,
      <<"LocalSymbol", "string", <<"attr", "localSymbol">>>>,
      <<"TradingClass", "string", <<"attr", "tradingClass">>>>,
      <<"Currency", "string", <<"attr", "currency">>>>,
      <<"Exchange", "string", <<"attr", "exchange">>>>,
      <<"PrimaryExchange", "string", <<"attr", "primaryExchange">>>>,
      <<"LastTradeDateOrContractMonth", "string", <<"attr", "lastTradeDateOrContractMonth">>>>,
      <<"Strike", "float64", <<"attr", "strike">>>>,
      <<"Right", "string", <<"attr", "right">>>>,
      <<"Multiplier", "string", <<"attr", "multiplier">>>>,
      <<"ComboLegsDescrip", "string", <<"attr", "comboLegsDescrip">>>>,
      <<"ComboLegs", "stringset", <<"to_string_set", "comboLegs">>>>,
      <<"DeltaNeutralContract", "string", <<"to_string_val", "deltaNeutralContract">>>>>>
IbOrderLogger ==
    <<<<"OrderId", "int64", <<"attr", "orderId">>>>,
      <<"ClientId", "int64", <<"attr", "clientId">>>>,
      <<"PermId", "int64", <<"attr", "permId">>>>,
      <<"Action", "string", <<"attr", "action">>>>,
      <<"TotalQuantity", "int64", <<"attr", "totalQuantity">>>>,
      <<"OrderType", "string", <<"attr", "orderType">>>>,
      <<"LmtPrice", "float64", <<"attr", "lmtPrice">>>>,
      <<"AuxPrice", "float64", <<"attr", "auxPrice">>>>,
      <<"TIF", "string", <<"attr", "tif">>>>,
      <<"ActiveStartTime", "string", <<"attr", "activeStartTime">>>>,
      <<"ActiveStopTime", "string", <<"attr", "activeStopTime">>>>,
      <<"OcaGroup", "string", <<"attr", "ocaGroup">>>>,
      <<"OcaType", "string", <<"map_values", "ocaType", oca_types>>>>,
      <<"OrderRef", "string", <<"attr", "orderRef">>>>,
      <<"Transmit", "bool_", <<"attr", "transmit">>>>,
      <<"ParentId", "int64", <<"attr", "parentId">>>>,
      <<"BlockOrder", "bool_", <<"attr", "blockOrder">>>>,
      <<"SweepToFill", "bool_", <<"attr", "sweepToFill">>>>,
      <<"DisplaySize", "int64", <<"attr", "displaySize">>>>,
      <<"TriggerMethod", "string", <<"map_values", "triggerMethod", trigger_methods>>>>,
      <<"OutsideRth", "bool_", <<"attr", "outsideRth">>>>,
      <<"Hidden", "bool_", <<"attr", "hidden">>>>,
      <<"GoodAfterTime", "string", <<"attr", "goodAfterTime">>>>,
      <<"GoodTillDate", "string", <<"attr", "goodTillDate">>>>,
      <<"Rule80A", "string", <<"map_values_str", "rule80A", rule80_values>>>>,
      <<"AllOrNone", "bool_", <<"attr", "allOrNone">>>>,
      <<"MinQty", "int64", <<"attr", "minQty">>>>,
      <<"PercentOffset", "float64", <<"attr", "percentOffset">>>>,
      <<"OverridePercentageConstraints", "bool_", <<"attr", "overridePercentageConstraints">>>>,
      <<"TrailStopPrice", "float64", <<"attr", "trailStopPrice">>>>,
      <<"TrailingPercent", "float64", <<"attr", "trailingPercent">>>>,
      <<"FaGroup", "string", <<"attr", "faGroup">>>>,
      <<"FaProfile", "string", <<"attr", "faProfile">>>>,
      <<"FaMethod", "string", <<"attr", "faMethod">>>>,
      <<"FaPercentage", "string", <<"attr", "faPercentage">>>>,
      <<"DesignatedLocation", "string", <<"attr", "designatedLocation">>>>,
      <<"OpenClose", "string", <<"map_values_str", "openClose", open_close_values>>>>,
      <<"Origin", "string", <<"map_values", "origin", origin_values>>>>,
      <<"ShortSaleSlot", "string", <<"map_values", "shortSaleSlot", short_sale_slot_values>>>>,
      <<"ExemptClode", "int64", <<"attr", "exemptCode">>>>,
      <<"DiscretionaryAmt", "int64", <<"attr", "discretionaryAmt">>>>,
      <<"ETradeOnly", "bool_", <<"attr", "eTradeOnly">>>>,
      <<"FirmQuoteOnly", "bool_", <<"attr", "firmQuoteOnly">>>>,
      <<"NbboPriceCap", "float64", <<"attr", "nbboPriceCap">>>>,
      <<"OptOutSmarRouting", "bool_", <<"attr", "optOutSmartRouting">>>>,
      <<"AuctionStrategy", "string", <<"map_values", "auctionStrategy", auction_stragey_values>>>>,
      <<"StartingPrice", "float64", <<"attr", "startingPrice">>>>,
      <<"StockRefPrice", "float64", <<"attr", "stockRefPrice">>>>,
      <<"Delta", "float64", <<"attr", "delta">>>>,
      <<"StockRangeLower", "float64", <<"attr", "stockRangeLower">>>>,
      <<"StockRangeUpper", "float64", <<"attr", "stockRangeUpper">>>>,
      <<"RandomizePrice", "bool_", <<"attr", "randomizePrice">>>>,
      <<"RandomizeSize", "bool_", <<"attr", "randomizeSize">>>>,
      <<"Volatility", "float64", <<"attr", "volatility">>>>,
      <<"VolatilityType", "string", <<"map_values", "volatilityType", volatility_type>>>>,
      <<"DeltaNeutralOrderType", "string", <<"attr", "deltaNeutralOrderType">>>>,
      <<"DeltaNeutralAuxPrice", "float64", <<"attr", "deltaNeutralAuxPrice">>>>,
      <<"DeltaNeutralConId", "int64", <<"attr", "deltaNeutralConId">>>>,
      <<"DeltaNeutralSettlingFirm", "string", <<"attr", "deltaNeutralSettlingFirm">>>>,
      <<"DeltaNeutralClearingAccount", "string", <<"attr", "deltaNeutralClearingAccount">>>>,
      <<"DeltaNeutralClearingIntent", "string", <<"attr", "deltaNeutralClearingIntent">>>>,
      <<"DeltaNeutralOpenClose", "string", <<"attr", "deltaNeutralOpenClose">>>>,
      <<"DeltaNeutralShortSale", "bool_", <<"attr", "deltaNeutralShortSale">>>>,
      <<"DeltaNeutralShortSaleSlot", "int64", <<"attr", "deltaNeutralShortSaleSlot">>>>,
      <<"DeltaNeutralDesignatedLocation", "string", <<"attr", "deltaNeutralDesignatedLocation">>>>,
      <<"ContinuousUpdate", "bool_", <<"attr", "continuousUpdate">>>>,
      <<"ReferencePriceType", "string", <<"map_values", "referencePriceType", reference_price_type>>>>,
      <<"BasisPoints", "float64", <<"attr", "basisPoints">>>>,
      <<"BasisPointsType", "int64", <<"attr", "basisPointsType">>>>,
      <<"ScaleInitLevelSize", "int64", <<"attr", "scaleInitLevelSize">>>>,
      <<"ScaleSubsLevelSize", "int64", <<"attr", "scaleSubsLevelSize">>>>,
      <<"ScalePriceIncrement", "float64", <<"attr", "scalePriceIncrement">>>>,
      <<"ScalePriceAdjustValue", "float64", <<"attr", "scalePriceAdjustValue">>>>,
      <<"ScalePriceAdjustInterval", "int64", <<"attr", "scalePriceAdjustInterval">>>>,
      <<"ScaleProfitOffset", "float64", <<"attr", "scaleProfitOffset">>>>,
      <<"ScaleAutoReset", "bool_", <<"attr", "scaleAutoReset">>>>,
      <<"ScaleInitPosition", "int64", <<"attr", "scaleInitPosition">>>>,
      <<"ScaleInitFillQty", "int64", <<"attr", "scaleInitFillQty">>>>,
      <<"ScaleRandomPercent", "bool_", <<"attr", "scaleRandomPercent">>>>,
      <<"ScaleTable", "string", <<"attr", "scaleTable">>>>,
      <<"HedgeType", "string", <<"map_values_str", "hedgeType", hedge_type>>>>,
      <<"HedgeParam", "string", <<"attr", "hedgeParam">>>>,
      <<"Account", "string", <<"attr", "account">>>>,
      <<"SettlingFirm", "string", <<"attr", "settlingFirm">>>>,
      <<"ClearingAccount", "string", <<"attr", "clearingAccount">>>>,
      <<"ClearingIntent", "string", <<"attr", "clearingIntent">>>>,
      <<"AlgoStrategy", "string", <<"attr", "algoStrategy">>>>,
      <<"AlgoParams", "stringset", <<"to_string_set", "algoParams">>>>,
      <<"SmartComboRoutingParams", "stringset", <<"to_string_set", "smartComboRoutingParams">>>>,
      <<"AlgoId", "string", <<"attr", "algoId">>>>,
      <<"WhatIf", "bool_", <<"attr", "whatIf">>>>,
      <<"NotHeld", "bool_", <<"attr", "notHeld">>>>,
      <<"Solicited", "bool_", <<"attr", "solicited">>>>,
      <<"ModelCode", "string", <<"attr", "modelCode">>>>,
      <<"OrderComboLegs", "stringset", <<"to_string_set", "orderComboLegs">>>>,
      <<"OrderMiscOptions", "stringset", <<"to_string_set", "orderMiscOptions">>>>,
      <<"ReferenceContractId", "int64", <<"attr", "referenceContractId">>>>,
      <<"PeggedChangeAmount", "float64", <<"attr", "peggedChangeAmount">>>>,
      <<"IsPeggedChangeAmountDecrease", "bool_", <<"attr", "isPeggedChangeAmountDecrease">>>>,
      <<"ReferenceChangeAmount", "float64", <<"attr", "referenceChangeAmount">>>>,
      <<"ReferenceExchangeId", "string", <<"attr", "referenceExchangeId">>>>,
      <<"AdjustedOrderType", "string", <<"attr", "adjustedOrderType">>>>,
      <<"TriggerPrice", "float64", <<"attr", "triggerPrice">>>>,
      <<"AdjustedStopPrice", "float64", <<"attr", "adjustedStopPrice">>>>,
      <<"AdjustedStopLimitPrice", "float64", <<"attr", "adjustedStopLimitPrice">>>>,
      <<"AdjustedTrailingAmount", "float64", <<"attr", "adjustedTrailingAmount">>>>,
      <<"AdjustableTrailingUnit", "int64", <<"attr", "adjustableTrailingUnit">>>>,
      <<"LmtPriceOffset", "float64", <<"attr", "lmtPriceOffset">>>>,
      <<"Conditions", "stringset", <<"to_string_set", "conditions">>>>,
      <<"ConditionsCancelOrder", "bool_", <<"attr", "conditionsCancelOrder">>>>,
      <<"ConditionsIgnoreRth", "bool_", <<"attr", "conditionsIgnoreRth">>>>,
      <<"ExtOperator", "string", <<"attr", "extOperator">>>>,
      <<"CashQty", "float64", <<"attr", "cashQty">>>>,
      <<"Mifid2DecisionMaker", "string", <<"attr", "mifid2DecisionMaker">>>>,
      <<"Mifid2DecisionAlgo", "string", <<"attr", "mifid2DecisionAlgo">>>>,
      <<"Mifid2ExecutionTrader", "string", <<"attr", "mifid2ExecutionTrader">>>>,
      <<"Mifid2ExecutionAlgo", "string", <<"attr", "mifid2ExecutionAlgo">>>>,
      <<"DontUseAutoPriceForHedge", "bool_", <<"attr", "dontUseAutoPriceForHedge">>>>,
      <<"IsOmsContainer", "bool_", <<"attr", "isOmsContainer">>>>,
      <<"DiscretionaryUpToLimitPrice", "bool_", <<"attr", "discretionaryUpToLimitPrice">>>>,
      <<"AutoCancelDate", "string", <<"attr", "autoCancelDate">>>>,
      <<"FilledQuantity", "float64", <<"attr", "filledQuantity">>>>,
      <<"RefFuturesConId", "int64", <<"attr", "refFuturesConId">>>>,
      <<"AutoCancelParent", "bool_", <<"attr", "autoCancelParent">>>>,
      <<"Shareholder", "string", <<"attr", "shareholder">>>>,
      <<"ImbalanceOnly", "bool_", <<"attr", "imbalanceOnly">>>>,
      <<"RouteMarketableToBbo", "bool_", <<"attr", "routeMarketableToBbo">>>>,
      <<"ParentPermId", "int64", <<"attr", "parentPermId">>>>,
      <<"UsePriceMgmtAlgo", "bool_", <<"attr", "usePriceMgmtAlgo">>>>,
      <<"SoftDollarTier", "string", <<"to_string_val", "softDollarTier">>>>>>
IbOrderStateLogger ==
    <<<<"Status", "string", <<"attr", "status">>>>,
      <<"InitMarginBefore", "string", <<"attr", "initMarginBefore">>>>,
      <<"MaintMarginBefore", "string", <<"attr", "maintMarginBefore">>>>,
      <<"EquityWithLoanBefore", "string", <<"attr", "equityWithLoanBefore">>>>,
      <<"InitMarginChange", "string", <<"attr", "initMarginChange">>>>,
      <<"MaintMarginChange", "string", <<"attr", "maintMarginChange">>>>,
      <<"EquityWithLoanChange", "string", <<"attr", "equityWithLoanChange">>>>,
      <<"InitMarginAfter", "string", <<"attr", "initMarginAfter">>>>,
      <<"MaintMarginAfter", "string", <<"attr", "maintMarginAfter">>>>,
      <<"EquityWithLoanAfter", "string", <<"attr", "equityWithLoanAfter">>>>,
      <<"Commission", "float64", <<"attr", "commission">>>>,
      <<"MinCommission", "float64", <<"attr", "minCommission">>>>,
      <<"MaxCommission", "float64", <<"attr", "maxCommission">>>>,
      <<"CommissionCurrency", "string", <<"attr", "commissionCurrency">>>>,
      <<"WarningText", "string", <<"attr", "warningText">>>>,
      <<"CompletedTime", "string", <<"attr", "completedTime">>>>,
      <<"CompletedStatus", "string", <<"attr", "completedStatus">>>>>>
IbTickAttribLogger ==
    <<<<"CanAutoExecute", "bool_", <<"attr", "canAutoExecute">>>>,
      <<"PastLimit", "bool_", <<"attr", "pastLimit">>>>,
      <<"PreOpen", "bool_", <<"attr", "preOpen">>>>>>
IbBarDataLogger ==
    <<<<"Timestamp", "datetime", <<"unix_sec_to_dh_datetime(int)", "date">>>>,
      <<"Open", "float64", <<"attr", "open">>>>,
      <<"High", "float64", <<"attr", "high">>>>,
      <<"Low", "float64", <<"attr", "low">>>>,
      <<"Close", "float64", <<"attr", "close">>>>,
      <<"Volume", "int64", <<"attr", "volume">>>>,
      <<"BarCount", "int64", <<"attr", "barCount">>>>,
      <<"Average", "float64", <<"attr", "average">>>>>>
IbHistoricalTickLastLogger ==
    <<<<"Timestamp", "datetime", <<"unix_sec_to_dh_datetime", "time">>>>,
      <<"Price", "float64", <<"attr", "price">>>>,
      <<"Size", "int64", <<"attr", "size">>>>,
      <<"PastLimit", "bool_", <<"attr", "tickAttribLast.pastLimit">>>>,
      <<"Unreported", "bool_", <<"attr", "tickAttribLast.unreported">>>>,
      <<"Exchange", "string", <<"attr", "exchange">>>>,
      <<"SpecialConditions", "string", <<"attr", "specialConditions">>>>>>
IbHistoricalTickBidAskLogger ==
    <<<<"Timestamp", "datetime", <<"unix_sec_to_dh_datetime", "time">>>>,
      <<"BidPrice", "float64", <<"attr", "priceBid">>>>,
      <<"AskPrice", "float64", <<"attr", "priceAsk">>>>,
      <<"BidSize", "int64", <<"attr", "sizeBid">>>>,
      <<"AskSize", "int64", <<"attr", "sizeAsk">>>>,
      <<"BidPastLow", "bool_", <<"attr", "tickAttribBidAsk.bidPastLow">>>>,
      <<"AskPastHigh", "bool_", <<"attr", "tickAttribBidAsk.askPastHigh">>>>>>
IbFamilyCodeLogger ==
    <<<<"AccountID", "string", <<"attr", "accountID">>>>,
      <<"FamilyCode", "string", <<"attr", "familyCodeStr">>>>>>
IbPriceIncrementLogger ==
    <<<<"LowEdge", "float64", <<"attr", "lowEdge">>>>,
      <<"Increment", "float64", <<"attr", "increment">>>>>>
IbContractDetailsLogger ==
    <<<<"** * contractstuff ** * cd.contract">>,
      <<"MarketName", "string", <<"attr", "marketName">>>>,
      <<"MinTick", "float64", <<"attr", "minTick">>>>,
      <<"OrderTypes", "string", <<"attr", "orderTypes">>>>,
      <<"ValidExchanges", "string", <<"attr", "validExchanges">>>>,
      <<"PriceMagnifier", "int64", <<"attr", "priceMagnifier">>>>,
      <<"UnderConId", "int64", <<"attr", "underConId">>>>,
      <<"LongName", "string", <<"attr", "longName">>>>,
      <<"ContractMonth", "string", <<"attr", "contractMonth">>>>,
      <<"Industry", "string", <<"attr", "industry">>>>,
      <<"Category", "string", <<"attr", "category">>>>,
      <<"SubCategory", "string", <<"attr", "subcategory">>>>,
      <<"TimeZoneId", "string", <<"attr", "timeZoneId">>>>,
      <<"TradingHours", "string", <<"attr", "tradingHours">>>>,
      <<"LiquidHours", "string", <<"attr", "liquidHours">>>>,
      <<"EvRule", "string", <<"attr", "evRule">>>>,
      <<"EvMultiplier", "int64", <<"attr", "evMultiplier">>>>,
      <<"MdSizeMultiplier", "int64", <<"attr", "mdSizeMultiplier">>>>,
      <<"AggGroup", "int64", <<"attr", "aggGroup">>>>,
      <<"UnderSymbol", "string", <<"attr", "underSymbol">>>>,
      <<"UnderSecType", "string", <<"attr", "underSecType">>>>,
      <<"MarketRuleIds", "string", <<"attr", "marketRuleIds">>>>,
      <<"SecIdList", "stringset", <<"to_string_set", "secIdList">>>>,
      <<"RealExpirationDate", "string", <<"attr", "realExpirationDate">>>>,
      <<"LastTradeTime", "string", <<"attr", "lastTradeTime">>>>,
      <<"StockType", "string", <<"attr", "stockType">>>>,
      <<"CUSIP", "string", <<"attr", "cusip">>>>,
      <<"Ratings", "string", <<"attr", "ratings">>>>,
      <<"DescAppend", "string", <<"attr", "descAppend">>>>,
      <<"BondType", "string", <<"attr", "bondType">>>>,
      <<"CouponType", "string", <<"attr", "couponType">>>>,
      <<"Callable", "bool_", <<"attr", "callable">>>>,
      <<"Putable", "bool_", <<"attr", "putable">>>>,
      <<"Coupon", "int64", <<"attr", "coupon">>>>,
      <<"Convertible", "bool_", <<"attr", "convertible">>>>,
      <<"Maturity", "string", <<"attr", "maturity">>>>,
      <<"IssueDate", "string", <<"attr", "issueDate">>>>,
      <<"NextOptionDate", "string", <<"attr", "nextOptionDate">>>>,
      <<"NextOptionType", "string", <<"attr", "nextOptionType">>>>,
      <<"NextOptionPartial", "bool_", <<"attr", "nextOptionPartial">>>>,
      <<"Notes", "string", <<"attr", "notes">>>>>>

LoggerNames == {"IbContractLogger", "IbOrderLogger", "IbOrderStateLogger",
                "IbTickAttribLogger", "IbBarDataLogger", "IbHistoricalTickLastLogger",
                "IbHistoricalTickBidAskLogger", "IbFamilyCodeLogger",
                "IbPriceIncrementLogger", "IbContractDetailsLogger"}

column_details(logger) ==
    CASE logger = "IbContractLogger" -> IbContractLogger
      [] logger = "IbOrderLogger" -> IbOrderLogger
      [] logger = "IbOrderStateLogger" -> IbOrderStateLogger
      [] logger = "IbTickAttribLogger" -> IbTickAttribLogger
      [] logger = "IbBarDataLogger" -> IbBarDataLogger
      [] logger = "IbHistoricalTickLastLogger" -> IbHistoricalTickLastLogger
      [] logger = "IbHistoricalTickBidAskLogger" -> IbHistoricalTickBidAskLogger
      [] logger = "IbFamilyCodeLogger" -> IbFamilyCodeLogger
      [] logger = "IbPriceIncrementLogger" -> IbPriceIncrementLogger
      [] logger = "IbContractDetailsLogger" -> IbContractDetailsLogger

\* map_values on a code that is a string: str(code) is the code itself.
map_values_str(value, table) ==
    IF value \in DOMAIN table THEN table[value]
    ELSE "UNKNOWN(" \o value \o ")"

\* to_string_set and to_string_val: the textual rendering of a collection,
\* as a set, and of one value; an absent value stays absent.
to_string_set(values) ==
    IF IsNone(values) THEN None
    ELSE Some({ToString(Val(values)[i]) : i \in DOMAIN Val(values)})
to_string_val(value) == IF IsNone(value) THEN None ELSE Some(ToString(Val(value)))

\* The extractor of one column applied to an IB object.
Extract(cd, ib_obj) ==
    LET f == cd[3]
        v == ib_obj[f[2]]
    IN  CASE f[1] = "attr" -> v
          [] f[1] = "map_values" -> map_values(v, f[3])
          [] f[1] = "map_values_str" -> map_values_str(v, f[3])
          [] f[1] = "to_string_set" -> to_string_set(v)
          [] f[1] = "to_string_val" -> to_string_val(v)
          [] f[1] = "unix_sec_to_dh_datetime" -> unix_sec_to_dh_datetime(v)
          [] f[1] = "unix_sec_to_dh_datetime(int)" -> unix_sec_to_dh_datetime(IntOfStr[v])

\* IbComplexTypeLogger.names, types and vals.
names(details) == [i \in DOMAIN details |-> details[i][1]]
types(details) == [i \in DOMAIN details |-> details[i][2]]
vals(details, ib_obj) == [i \in DOMAIN details |-> Extract(details[i], ib_obj)]

\* An entry of a column list that is written as a (name, type, extractor)
\* triple; the module is compiled as a whole, so one entry that is not
\* valid syntax keeps every logger of the module from being defined.
IsTriple(cd) == Len(cd) = 3
module_compiles ==
    \A logger \in LoggerNames :
        \A i \in DOMAIN column_details(logger) : IsTriple(column_details(logger)[i])

\* Importing the module and asking a logger for its names, types and the
\* values of an object.
logger_call(logger, ib_obj) ==
    IF ~module_compiles
    THEN [exc |-> "SyntaxError", names |-> <<>>, types |-> <<>>, vals |-> <<>>]
    ELSE [exc |-> "", names |-> names(column_details(logger)),
          types |-> types(column_details(logger)),
          vals |-> vals(column_details(logger), ib_obj)]

\* An IB object with the attributes a logger reads, at fixed values.
TripleColumns(details) == {i \in DOMAIN details : IsTriple(details[i])}
Attributes(details) == {details[i][3][2] : i \in TripleColumns(details)}
AttributeValue(f) ==
    CASE f[1] = "attr" -> 0
      [] f[1] = "map_values" -> 0
      [] f[1] = "map_values_str" -> ""
      [] f[1] = "to_string_set" -> None
      [] f[1] = "to_string_val" -> None
      [] f[1] = "unix_sec_to_dh_datetime" -> 240
      [] f[1] = "unix_sec_to_dh_datetime(int)" -> "240"
SyntheticObject(details) ==
    [a \in Attributes(details) |->
        AttributeValue(details[CHOOSE i \in TripleColumns(details) : details[i][3][2] = a][3])]

\* The module-level Order logger of the client.
logger_order == IbOrderLogger

\* Orders that differ from the fixed one in one coded field, which holds a
\* code of the field's map or a code that is not in it.
CodedColumns ==
    {i \in DOMAIN logger_order : logger_order[i][3][1] \in {"map_values", "map_values_str"}}
Codes(f) == DOMAIN f[3] \cup (IF f[1] = "map_values" THEN {99} ELSE {"Z"})
SyntheticOrders ==
    {SyntheticObject(logger_order)} \cup
    UNION {{[SyntheticObject(logger_order) EXCEPT ![logger_order[i][3][2]] = c] :
               c \in Codes(logger_order[i][3])} : i \in CodedColumns}

\* ------------------------------------------------------------ construction

\* load_short_rates(): it returns the table, or it fails and the failure
\* reaches its caller.
LoadOutcomes == {"table", "raises"}

\* IbTwsClient.__init__: the tables mapping holds the table of every table
\* writer; with the download enabled, the short-rate table is loaded and
\* added.  The constructor has no handler around the load.
IbTwsClient_init(download_short_rates, outcome) ==
    LET tables == [name \in TableNames \ ListenerTables |-> "table"]
    IN  IF ~download_short_rates
        THEN [exc |-> "", tables |-> Some(tables), loads |-> 0]
        ELSE IF outcome = "raises"
             THEN [exc |-> "LoadFailed", tables |-> None, loads |-> 1]
             ELSE [exc |-> "", tables |-> Some(tables @@ ("short_rates" :> outcome)),
                   loads |-> 1]

\* ----------------------------------------------------------------- steps

Apply(s) ==
    /\ table_writers' = s.tw
    /\ contract_registry' = s.reg
    /\ order_id_queue' = s.q
    /\ registered_market_rules' = s.rmr
    /\ realtime_bar_sizes' = s.bars
    /\ sent' = s.sent
    /\ unique_id' = s.uid
    /\ handle' = s.h

Returned(op, arg, exc, val) == [op |-> op, arg |-> arg, exc |-> exc, val |-> val]

Init ==
    /\ connected = FALSE
    /\ thread = None
    /\ readers = 0
    /\ contract_registry = None
    /\ order_id_queue = None
    /\ registered_market_rules = None
    /\ realtime_bar_sizes = None
    /\ table_writers = [n \in TableNames |-> <<>>]
    /\ sent = <<>>
    /\ unique_id = 0
    /\ pc = [c \in Callers |-> "idle"]
    /\ handle = [c \in Callers |-> None]
    /\ result = [c \in Callers |-> Returned("", None, "", None)]
    /\ dispatched = 0
    /\ last = [name |-> "", args |-> <<>>, exc |-> "", reqs |-> <<>>]
    /\ connects = 0
    /\ calls = 0

\* connect without the already-connected check.
connect_unchecked(c) ==
    /\ pc[c] = "idle"
    /\ Steps < MaxSteps
    /\ connected' = TRUE
    /\ connects' = connects + 1
    /\ sent' = <<>>
    /\ pc' = [pc EXCEPT ![c] = "connect_opened"]
    /\ UNCHANGED <<thread, readers, session, table_writers, unique_id,
                   handle, result, dispatched, last, calls>>

\* connect, up to its first sleep: the already-connected check and
\* EClient.connect, which opens a new transport.
connect(c) ==
    /\ pc[c] = "idle"
    /\ IF connected
       THEN /\ result' = [result EXCEPT ![c] = Returned("connect", None,
                              "Exception: IbTwsClient is already connected.", None)]
            /\ UNCHANGED <<connected, thread, readers, session, table_writers, sent,
                           unique_id, pc, handle, dispatched, last, connects, calls>>
       ELSE /\ Steps < MaxSteps
            /\ connected' = TRUE
            /\ connects' = connects + 1
            /\ sent' = <<>>
            /\ pc' = [pc EXCEPT ![c] = "connect_opened"]
            /\ UNCHANGED <<thread, readers, session, table_writers, unique_id,
                           handle, result, dispatched, last, calls>>

\* connect, up to its second sleep: the reader thread is started.
connect_start_thread(c) ==
    /\ pc[c] = "connect_opened"
    /\ thread' = Some(connects)
    /\ readers' = readers + 1
    /\ pc' = [pc EXCEPT ![c] = "connect_started"]
    /\ UNCHANGED <<connected, session, table_writers, sent, unique_id, handle,
                   result, dispatched, last, connects, calls>>

\* connect, up to its third sleep: _subscribe.
connect_subscribe(c) ==
    /\ pc[c] = "connect_started"
    /\ Apply(subscribe(Cur))
    /\ pc' = [pc EXCEPT ![c] = "connect_subscribed"]
    /\ UNCHANGED <<connected, thread, readers, result, dispatched, last, connects, calls>>

connect_return(c) ==
    /\ pc[c] = "connect_subscribed"
    /\ pc' = [pc EXCEPT ![c] = "idle"]
    /\ result' = [result EXCEPT ![c] = Returned("connect", None, "", None)]
    /\ UNCHANGED <<connected, thread, readers, session, table_writers, sent,
                   unique_id, handle, dispatched, last, connects, calls>>

\* disconnect: EClient.disconnect closes the transport ...
disconnect(c) ==
    /\ pc[c] = "idle"
    /\ connected' = FALSE
    /\ pc' = [pc EXCEPT ![c] = "disconnecting"]
    /\ UNCHANGED <<thread, readers, session, table_writers, sent, unique_id,
                   handle, result, dispatched, last, connects, calls>>

\* disconnect that also starts the tables afresh.
disconnect_clears_tables(c) ==
    /\ pc[c] = "disconnecting"
    /\ thread' = None
    /\ contract_registry' = None
    /\ order_id_queue' = None
    /\ registered_market_rules' = None
    /\ realtime_bar_sizes' = None
    /\ table_writers' = [n \in DOMAIN table_writers |-> <<>>]
    /\ pc' = [pc EXCEPT ![c] = "idle"]
    /\ result' = [result EXCEPT ![c] = Returned("disconnect", None, "", None)]
    /\ UNCHANGED <<connected, readers, sent, unique_id, handle, dispatched, last,
                   connects, calls>>

\* disconnect that keeps the contract registry.
disconnect_keeps_registry(c) ==
    /\ pc[c] = "disconnecting"
    /\ thread' = None
    /\ order_id_queue' = None
    /\ registered_market_rules' = None
    /\ realtime_bar_sizes' = None
    /\ pc' = [pc EXCEPT ![c] = "idle"]
    /\ result' = [result EXCEPT ![c] = Returned("disconnect", None, "", None)]
    /\ UNCHANGED <<connected, readers, contract_registry, table_writers, sent,
                   unique_id, handle, dispatched, last, connects, calls>>

\* ... and the thread reference and the four structures are dropped.
disconnect_clear(c) ==
    /\ pc[c] = "disconnecting"
    /\ thread' = None
    /\ contract_registry' = None
    /\ order_id_queue' = None
    /\ registered_market_rules' = None
    /\ realtime_bar_sizes' = None
    /\ pc' = [pc EXCEPT ![c] = "idle"]
    /\ result' = [result EXCEPT ![c] = Returned("disconnect", None, "", None)]
    /\ UNCHANGED <<connected, readers, table_writers, sent, unique_id, handle,
                   dispatched, last, connects, calls>>

\* EClient.run ends once the transport is closed.
reader_exit ==
    /\ readers > 0
    /\ ~connected
    /\ readers' = readers - 1
    /\ UNCHANGED <<connected, thread, session, table_writers, sent, unique_id,
                   pc, handle, result, dispatched, last, connects, calls>>

\* next_order_id that makes itself a queue when the client has none.
next_order_id_lazy_queue(c) ==
    /\ pc[c] = "idle"
    /\ order_id_queue' = Some(queue_request(IF IsNone(order_id_queue) THEN OrderIdEventQueue
                                            ELSE Val(order_id_queue), c))
    /\ handle' = [handle EXCEPT ![c] = None]
    /\ pc' = [pc EXCEPT ![c] = "reqIds"]
    /\ UNCHANGED <<connected, thread, readers, contract_registry,
                   registered_market_rules, realtime_bar_sizes, table_writers,
                   sent, unique_id, result, dispatched, last, connects, calls>>

\* next_order_id that asks IB for an id first and claims afterwards.
next_order_id_reqIds_first(c) ==
    /\ pc[c] = "idle"
    /\ sent' = IF connected THEN Append(sent, Request("reqIds", -1, None)) ELSE sent
    /\ handle' = [handle EXCEPT ![c] = None]
    /\ pc' = [pc EXCEPT ![c] = "reqIds"]
    /\ UNCHANGED <<connected, thread, readers, session, table_writers,
                   unique_id, result, dispatched, last, connects, calls>>

\* next_order_id that asks IB for an id without enqueueing its claim.
next_order_id_unclaimed(c) ==
    /\ pc[c] = "idle"
    /\ ~IsNone(order_id_queue)
    /\ handle' = [handle EXCEPT ![c] = None]
    /\ pc' = [pc EXCEPT ![c] = "reqIds"]
    /\ UNCHANGED <<connected, thread, readers, session, table_writers,
                   sent, unique_id, result, dispatched, last, connects, calls>>

\* next_order_id: self._order_id_queue.request()
next_order_id_request(c) ==
    /\ pc[c] = "idle"
    /\ IF IsNone(order_id_queue)
       THEN /\ result' = [result EXCEPT ![c] = Returned("next_order_id", None,
                                                        "AttributeError", None)]
            /\ UNCHANGED <<order_id_queue, handle, pc>>
       ELSE /\ order_id_queue' = Some(queue_request(Val(order_id_queue), c))
            /\ handle' = [handle EXCEPT ![c] = None]
            /\ pc' = [pc EXCEPT ![c] = "reqIds"]
            /\ UNCHANGED result
    /\ UNCHANGED <<connected, thread, readers, contract_registry,
                   registered_market_rules, realtime_bar_sizes, table_writers,
                   sent, unique_id, dispatched, last, connects, calls>>

\* next_order_id: self.reqIds(-1); nothing is written to a closed transport.
next_order_id_reqIds(c) ==
    /\ pc[c] = "reqIds"
    /\ sent' = IF connected THEN Append(sent, Request("reqIds", -1, None)) ELSE sent
    /\ pc' = [pc EXCEPT ![c] = "get"]
    /\ UNCHANGED <<connected, thread, readers, session, table_writers, unique_id,
                   handle, result, dispatched, last, connects, calls>>

\* next_order_id whose get() gives up waiting.
next_order_id_get_timeout(c) ==
    /\ pc[c] = "get"
    /\ result' = [result EXCEPT ![c] = Returned("next_order_id", None, "", handle[c])]
    /\ pc' = [pc EXCEPT ![c] = "idle"]
    /\ UNCHANGED <<connected, thread, readers, session, table_writers, sent,
                   unique_id, handle, dispatched, last, connects, calls>>

\* next_order_id: return request.get(), which blocks until the claim has
\* its value.
next_order_id_get(c) ==
    /\ pc[c] = "get"
    /\ ~IsNone(handle[c])
    /\ result' = [result EXCEPT ![c] = Returned("next_order_id", None, "", handle[c])]
    /\ pc' = [pc EXCEPT ![c] = "idle"]
    /\ UNCHANGED <<connected, thread, readers, session, table_writers, sent,
                   unique_id, handle, dispatched, last, connects, calls>>

\* get_registered_contract that reports a missing resolution without asking
\* for it.
get_registered_contract_unrequested(s, contract) ==
    IF IsNone(s.reg) THEN Raise(s, "AttributeError")
    ELSE LET fp == Fingerprint(contract)
         IN  IF fp \in DOMAIN Val(s.reg) /\ ~IsNone(Val(s.reg)[fp].details)
             THEN [s EXCEPT !.ret = Some(Val(Val(s.reg)[fp].details).contract)]
             ELSE Raise(s, "NotYetResolved")

\* get_registered_contract: the resolved identity, or a lookup request and
\* an error the caller retries on; it never waits.
get_registered_contract(s, contract) ==
    IF IsNone(s.reg) THEN Raise(s, "AttributeError")
    ELSE LET fp == Fingerprint(contract)
         IN  IF fp \in DOMAIN Val(s.reg) /\ ~IsNone(Val(s.reg)[fp].details)
             THEN [s EXCEPT !.ret = Some(Val(Val(s.reg)[fp].details).contract)]
             ELSE IF fp \in DOMAIN Val(s.reg) /\ ~IsNone(Val(s.reg)[fp].error)
             THEN Raise(s, "LookupFailed: " \o Val(Val(s.reg)[fp].error))
             ELSE Raise(request_contract_details_nonblocking(s, contract),
                        "NotYetResolved")

GetRegisteredContract ==
    \E c \in Callers, contract \in Contracts :
        LET s == get_registered_contract(Cur, contract)
        IN  /\ pc[c] = "idle"
            /\ Steps < MaxSteps
            /\ Apply(s)
            /\ calls' = calls + 1
            /\ result' = [result EXCEPT ![c] =
                              Returned("get_registered_contract", Some(contract), s.exc, s.ret)]
            /\ UNCHANGED <<connected, thread, readers, pc, dispatched, last, connects>>

\* A reader thread dispatches one event to its callback; an exception that
\* leaves the callback ends the thread.
Deliver(name, args, s) ==
    /\ readers > 0
    /\ Steps < MaxSteps
    /\ Apply(s)
    /\ dispatched' = dispatched + 1
    /\ last' = [name |-> name, args |-> args, exc |-> s.exc, reqs |-> <<>>]
    /\ readers' = IF s.exc = "" THEN readers ELSE readers - 1
    /\ UNCHANGED <<connected, thread, pc, result, connects, calls>>

\* A table writer called directly, with any number of values.
WriterTables == {"errors", "ticks_mid_point"}
ValueCounts == {0, 2, 3, 4, 5, 6}
ValueLists == {[i \in 1..n |-> i] : n \in ValueCounts}

WriteRowCall ==
    \E name \in WriterTables, values \in ValueLists :
        LET r == write_row(table_writers, name, values)
        IN  /\ pc["main"] = "idle"
            /\ Steps < MaxSteps
            /\ calls' = calls + 1
            /\ table_writers' = r.tw
            /\ result' = [result EXCEPT !["main"] =
                              Returned("write_row", Some(<<name, values>>), r.exc, None)]
            /\ UNCHANGED <<connected, thread, readers, contract_registry, order_id_queue,
                           registered_market_rules, realtime_bar_sizes, sent, unique_id,
                           pc, handle, dispatched, last, connects>>

\* A logger of the secondary package asked for its names, its types and the
\* values of an object.
LoggerCall ==
    \E logger \in LoggerNames :
        LET ib_obj == SyntheticObject(column_details(logger))
            r == logger_call(logger, ib_obj)
        IN  /\ pc["main"] = "idle"
            /\ Steps < MaxSteps
            /\ calls' = calls + 1
            /\ result' = [result EXCEPT !["main"] =
                              Returned("logger", Some(logger), r.exc,
                                       Some(<<r.names, r.types, r.vals>>))]
            /\ UNCHANGED <<connected, thread, readers, session, table_writers, sent,
                           unique_id, pc, handle, dispatched, last, connects>>

\* The Order logger asked for the values of an order.
OrderVals ==
    \E order \in SyntheticOrders :
        /\ pc["main"] = "idle"
        /\ Steps < MaxSteps
        /\ calls' = calls + 1
        /\ result' = [result EXCEPT !["main"] =
                          Returned("logger_order.vals", Some(order), "",
                                   Some(vals(logger_order, order)))]
        /\ UNCHANGED <<connected, thread, readers, session, table_writers, sent,
                       unique_id, pc, handle, dispatched, last, connects>>

\* A client constructed, with the download enabled or not and with either
\* outcome of the load.
NewClient ==
    \E download_short_rates \in BOOLEAN, outcome \in LoadOutcomes :
        LET r == IbTwsClient_init(download_short_rates, outcome)
        IN  /\ pc["main"] = "idle"
            /\ Steps < MaxSteps
            /\ calls' = calls + 1
            /\ result' = [result EXCEPT !["main"] =
                              Returned("IbTwsClient", Some(<<download_short_rates, outcome>>),
                                       r.exc, Some(<<r.tables, r.loads>>))]
            /\ UNCHANGED <<connected, thread, readers, session, table_writers, sent,
                           unique_id, pc, handle, dispatched, last, connects>>

\* A caller subscribes to real-time bars.
BarRequestIds == {7}
BarSizes == {5, 30}
ReqRealTimeBars ==
    \E c \in Callers, reqId \in BarRequestIds, barSize \in BarSizes :
        LET s == reqRealTimeBars(Cur, reqId, Contract("AAPL", 1), barSize)
        IN  /\ pc[c] = "idle"
            /\ Steps < MaxSteps
            /\ Apply(s)
            /\ calls' = calls + 1
            /\ result' = [result EXCEPT ![c] =
                              Returned("reqRealTimeBars", Some(<<reqId, barSize>>), s.exc, None)]
            /\ UNCHANGED <<connected, thread, readers, pc, dispatched, last, connects>>

\* A caller's reqRealTimeBars, statement by statement.  The result keeps the
\* call's arguments and the connection the call began on.
reqRealTimeBars_first(c) ==
    \E reqId \in BarRequestIds, barSize \in BarSizes :
        LET s == reqRealTimeBars_step(Cur, reqRealTimeBars_steps[1], reqId, Contract("AAPL", 1), barSize)
        IN  /\ pc[c] = "idle"
            /\ Steps < MaxSteps
            /\ Apply(s)
            /\ calls' = calls + 1
            /\ result' = [result EXCEPT ![c] =
                              Returned("reqRealTimeBars", Some(<<reqId, barSize>>), s.exc, Some(connects))]
            /\ pc' = [pc EXCEPT ![c] = IF s.exc = "" THEN "bars_second" ELSE "idle"]
            /\ UNCHANGED <<connected, thread, readers, dispatched, last, connects>>

reqRealTimeBars_second(c) ==
    /\ pc[c] = "bars_second"
    /\ LET a == Val(result[c].arg)
           s == reqRealTimeBars_step(Cur, reqRealTimeBars_steps[2], a[1], Contract("AAPL", 1), a[2])
       IN  /\ Apply(s)
           /\ result' = [result EXCEPT ![c].exc = s.exc]
    /\ pc' = [pc EXCEPT ![c] = "idle"]
    /\ UNCHANGED <<connected, thread, readers, dispatched, last, connects, calls>>

\* An event handed to the secondary listener: its client and that client's
\* thread are no part of this session.
DeliverListener(name, args, s) ==
    /\ Steps < MaxSteps
    /\ Apply([s EXCEPT !.sent = sent])
    /\ dispatched' = dispatched + 1
    /\ last' = [name |-> name, args |-> args, exc |-> s.exc, reqs |-> s.sent]
    /\ UNCHANGED <<connected, thread, readers, pc, result, connects, calls>>

\* The state a callback of the secondary listener starts from: the requests
\* it sends go to the client it was given, not to this session's transport.
ListenerCur == [Cur EXCEPT !.sent = <<>>]

\* What IB sends.
Accounts == {"DU1"}
ErrorCodes == {200}
ErrorStrings == {"No security definition has been found", "Invalid symbol"}
\* The ids of the requests on the transport, and -1 of a notification.
RequestIdsSent == {-1} \cup {sent[i].id : i \in DOMAIN sent}
\* The ids IB answers contract-details requests under: those of the
\* registry's requests, and 0 of a request made through EClient directly.
DetailsIdsSent == {0} \cup {sent[i].id : i \in {j \in DOMAIN sent :
                                              sent[j].req = "reqContractDetails"}}
ContractDetailsValues ==
    {[contract |-> Contract("AAPL", 1), marketRuleIds |-> <<"26">>],
     [contract |-> Contract("IBM", 1), marketRuleIds |-> <<>>]}
Orders == {[orderId |-> 1]}
EventOrderIds == {1, 2}
OrderStates == {[status |-> "Submitted"]}
Executions == {[execId |-> "e1"]}
Description(contract) == [contract |-> contract, derivativeSecTypes |-> {"OPT"}]
DescriptionLists ==
    {<<>>, <<Description(Contract("AAPL", 0))>>,
     <<Description(Contract("AAPL", 0)), Description(Contract("AAPL", 1))>>,
     <<Description(Contract("AAPL", 0)), Description(Contract("IBM", 0))>>}

\* Contract details that share market rules, and one that lists a rule twice.
RuleDetailsValues ==
    {[contract |-> Contract("AAPL", 1), marketRuleIds |-> <<"26">>],
     [contract |-> Contract("IBM", 2), marketRuleIds |-> <<"26", "240">>],
     [contract |-> Contract("IBM", 3), marketRuleIds |-> <<"240", "240">>]}

ContractDetailsRules ==
    \E reqId \in {0}, cd \in RuleDetailsValues :
        Deliver("contractDetails", <<reqId, cd>>, contractDetails(Cur, reqId, cd))

MarketRuleIds == {26, 240}
PriceIncrementLists == {<<[lowEdge |-> 0, increment |-> 1]>>,
                        <<[lowEdge |-> 0, increment |-> 1], [lowEdge |-> 100, increment |-> 5]>>}

MarketRule ==
    \E id \in MarketRuleIds, pis \in PriceIncrementLists :
        Deliver("marketRule", <<id, pis>>, marketRule(Cur, id, pis))

\* Market data.  A price is kept in hundredths: 10125 is 101.25.
TickAttribs == {[canAutoExecute |-> TRUE, pastLimit |-> FALSE, preOpen |-> FALSE],
                [canAutoExecute |-> FALSE, pastLimit |-> TRUE, preOpen |-> FALSE]}
TickTypes == {1, 2}
Prices == {10125}
TickRequestIds == {42}
TradeTick(time, price) ==
    [time |-> time, tickAttribLast |-> "", price |-> price, size |-> 1,
     exchange |-> "SMART", specialConditions |-> ""]
TradeTickLists == {<<TradeTick(1, 10125), TradeTick(2, 10130)>>, <<TradeTick(3, 10125)>>}
BidAskTick(time, priceBid, priceAsk) ==
    [time |-> time, tickAttribBidAsk |-> "", priceBid |-> priceBid,
     priceAsk |-> priceAsk, sizeBid |-> 1, sizeAsk |-> 1]
BidAskTickLists == {<<BidAskTick(1, 10120, 10125), BidAskTick(2, 10125, 10130)>>,
                    <<BidAskTick(3, 10120, 10125)>>}
MidPointTick(time, price) == [time |-> time, price |-> price]
MidPointTickLists == {<<MidPointTick(1, 10125), MidPointTick(2, 10130)>>,
                      <<MidPointTick(3, 10125)>>}

TickPrice ==
    \E reqId \in TickRequestIds, tickType \in TickTypes, price \in Prices, ta \in TickAttribs :
        Deliver("tickPrice", <<reqId, tickType, price, ta>>,
                tickPrice(Cur, reqId, tickType, price, ta))

TickByTickAllLast ==
    \E reqId \in TickRequestIds, price \in Prices :
        Deliver("tickByTickAllLast", <<reqId, 1, 4, price, 1, "", "SMART", "">>,
                tickByTickAllLast(Cur, reqId, 1, 4, price, 1, "", "SMART", ""))

HistoricalTicksLast ==
    \E reqId \in TickRequestIds, ticks \in TradeTickLists :
        Deliver("historicalTicksLast", <<reqId, ticks, TRUE>>,
                historicalTicksLast(Cur, reqId, ticks, TRUE))

HistoricalTicksBidAsk ==
    \E reqId \in TickRequestIds, ticks \in BidAskTickLists :
        Deliver("historicalTicksBidAsk", <<reqId, ticks, TRUE>>,
                historicalTicksBidAsk(Cur, reqId, ticks, TRUE))

HistoricalTicks ==
    \E reqId \in TickRequestIds, ticks \in MidPointTickLists :
        Deliver("historicalTicks", <<reqId, ticks, TRUE>>,
                historicalTicks(Cur, reqId, ticks, TRUE))

\* News bulletins: IB's three message types and one it does not define.
MsgTypes == {NEWS_MSG, EXCHANGE_AVAIL_MSG, EXCHANGE_UNAVAIL_MSG, 7}

UpdateNewsBulletin ==
    \E msgType \in MsgTypes :
        Deliver("updateNewsBulletin", <<1, msgType, "halt", "NYSE">>,
                updateNewsBulletin(Cur, 1, msgType, "halt", "NYSE"))

ListenerUpdateNewsBulletin ==
    \E msgType \in MsgTypes :
        DeliverListener("listener.updateNewsBulletin", <<1, msgType, "halt", "NYSE">>,
                        listener_updateNewsBulletin(Cur, 1, msgType, "halt", "NYSE"))

ContractDetailsEnd == Deliver("contractDetailsEnd", <<0>>, contractDetailsEnd(Cur, 0))
TickSnapshotEnd == Deliver("tickSnapshotEnd", <<42>>, tickSnapshotEnd(Cur, 42))
HistoricalDataEnd ==
    Deliver("historicalDataEnd", <<42, "s", "e">>, historicalDataEnd(Cur, 42, "s", "e"))
OpenOrderEnd == Deliver("openOrderEnd", <<>>, openOrderEnd(Cur))
CompletedOrdersEnd == Deliver("completedOrdersEnd", <<>>, completedOrdersEnd(Cur))
ExecDetailsEnd == Deliver("execDetailsEnd", <<0>>, execDetailsEnd(Cur, 0))
HistoricalNewsEnd ==
    \E hasMore \in BOOLEAN :
        Deliver("historicalNewsEnd", <<42, hasMore>>, historicalNewsEnd(Cur, 42, hasMore))
ListenerHistoricalNewsEnd ==
    \E hasMore \in BOOLEAN :
        DeliverListener("listener.historicalNewsEnd", <<42, hasMore>>,
                        listener_historicalNewsEnd(Cur, 42, hasMore))

\* An error whose code the catalog does not hold.
UncataloguedCodes == {999}

ErrorUncatalogued ==
    \E reqId \in RequestIdsSent, code \in UncataloguedCodes, text \in ErrorStrings :
        Deliver("error", <<reqId, code, text>>, error(Cur, reqId, code, text))

Error ==
    \E reqId \in RequestIdsSent, code \in ErrorCodes, text \in ErrorStrings :
        Deliver("error", <<reqId, code, text>>, error(Cur, reqId, code, text))

ContractDetailsEvent ==
    \E reqId \in DetailsIdsSent, cd \in ContractDetailsValues :
        Deliver("contractDetails", <<reqId, cd>>, contractDetails(Cur, reqId, cd))

BondContractDetails ==
    \E reqId \in DetailsIdsSent, cd \in ContractDetailsValues :
        Deliver("bondContractDetails", <<reqId, cd>>, bondContractDetails(Cur, reqId, cd))

SymbolSamples ==
    \E reqId \in {0}, ds \in DescriptionLists :
        Deliver("symbolSamples", <<reqId, ds>>, symbolSamples(Cur, reqId, ds))

UpdatePortfolio ==
    \E a \in Accounts, c \in Contracts :
        Deliver("updatePortfolio", <<c, a>>,
                updatePortfolio(Cur, c, 10, 5, 50, 4, 10, 0, a))

Position ==
    \E a \in Accounts, c \in Contracts :
        Deliver("position", <<a, c>>, position(Cur, a, c, 10, 4))

NextValidId ==
    \E orderId \in OrderIdValues :
        Deliver("nextValidId", <<orderId>>, nextValidId(Cur, orderId))

OpenOrder ==
    \E orderId \in EventOrderIds, c \in Contracts, o \in Orders, os \in OrderStates :
        Deliver("openOrder", <<orderId, c, o, os>>, openOrder(Cur, orderId, c, o, os))

CompletedOrder ==
    \E c \in Contracts, o \in Orders, os \in OrderStates :
        Deliver("completedOrder", <<c, o, os>>, completedOrder(Cur, c, o, os))

ExecDetails ==
    \E reqId \in {0}, c \in Contracts, e \in Executions :
        Deliver("execDetails", <<reqId, c, e>>, execDetails(Cur, reqId, c, e))

Lifecycle ==
    \/ connect("main")
    \/ connect_start_thread("main")
    \/ connect_subscribe("main")
    \/ connect_return("main")
    \/ disconnect("main")
    \/ disconnect_clear("main")
    \/ reader_exit

NextOrderId ==
    \E c \in Callers :
        \/ next_order_id_request(c)
        \/ next_order_id_reqIds(c)
        \/ next_order_id_get(c)

\* The session, the callers of next_order_id and IB's nextValidId events.
NextOrderIds ==
    \/ Lifecycle
    \/ NextOrderId
    \/ NextValidId

SpecOrderIds == Init /\ [][NextOrderIds]_vars

\* A session that stays connected, in which IB answers every reqIds with one
\* nextValidId and sends no other: a call starts only while the bound of the
\* model leaves room for its answer.
ReqIdsSent == Cardinality({i \in DOMAIN sent : sent[i].req = "reqIds"})
ReqIdsToCome == Cardinality({c \in Callers : pc[c] = "reqIds"})

Connecting ==
    \/ connect("main")
    \/ connect_start_thread("main")
    \/ connect_subscribe("main")
    \/ connect_return("main")

StartNextOrderId(c) ==
    /\ connects + ReqIdsSent + ReqIdsToCome < MaxSteps
    /\ next_order_id_request(c)

NextValidIdAnswer ==
    /\ dispatched < ReqIdsSent
    /\ NextValidId

NextAnswered ==
    \/ Connecting
    \/ \E c \in Callers : StartNextOrderId(c)
    \/ \E c \in Callers : next_order_id_reqIds(c)
    \/ \E c \in Callers : next_order_id_get(c)
    \/ NextValidIdAnswer

SpecAnswered ==
    /\ Init
    /\ [][NextAnswered]_vars
    /\ WF_vars(NextValidIdAnswer)
    /\ \A c \in Callers : WF_vars(next_order_id_reqIds(c))
    /\ \A c \in Callers : WF_vars(next_order_id_get(c))

\* The session, the callers of get_registered_contract and IB's answers to
\* the lookups.
NextLookup ==
    \/ Lifecycle
    \/ GetRegisteredContract
    \/ ContractDetailsEvent
    \/ Error

SpecLookup == Init /\ [][NextLookup]_vars

\* The session and the events that carry a contract or answer a lookup.
Next ==
    \/ Lifecycle
    \/ Error
    \/ ContractDetailsEvent
    \/ SymbolSamples
    \/ UpdatePortfolio
    \/ Position

Spec == Init /\ [][Next]_vars

\* The session and the order events.
NextOrders ==
    \/ Lifecycle
    \/ BondContractDetails
    \/ OpenOrder
    \/ CompletedOrder
    \/ ExecDetails

SpecOrders == Init /\ [][NextOrders]_vars

\* The session, IB's errors of every kind and the positions whose lookups
\* the errors can answer.
NextErrors ==
    \/ Lifecycle
    \/ Error
    \/ ErrorUncatalogued
    \/ Position

SpecErrors == Init /\ [][NextErrors]_vars

\* The session, contract details and IB's answers to the market-rule requests.
NextRules ==
    \/ Lifecycle
    \/ ContractDetailsRules
    \/ MarketRule

SpecRules == Init /\ [][NextRules]_vars

\* The session and the market-data events.
NextTicks ==
    \/ Lifecycle
    \/ TickPrice
    \/ TickByTickAllLast
    \/ HistoricalTicksLast
    \/ HistoricalTicksBidAsk
    \/ HistoricalTicks

SpecTicks == Init /\ [][NextTicks]_vars

\* The session, the news bulletins and the end-of-list markers, of the
\* client and of the secondary listener.
NextNews ==
    \/ Lifecycle
    \/ UpdateNewsBulletin
    \/ ListenerUpdateNewsBulletin
    \/ ContractDetailsEnd
    \/ TickSnapshotEnd
    \/ HistoricalDataEnd
    \/ OpenOrderEnd
    \/ CompletedOrdersEnd
    \/ ExecDetailsEnd
    \/ HistoricalNewsEnd
    \/ ListenerHistoricalNewsEnd

SpecNews == Init /\ [][NextNews]_vars

\* The session, direct calls of a table writer and two callbacks that write
\* to the same tables.
NextWriter ==
    \/ Lifecycle
    \/ WriteRowCall
    \/ Error
    \/ HistoricalTicks

SpecWriter == Init /\ [][NextWriter]_vars

\* The session and calls of the loggers of the secondary package.
NextLoggers ==
    \/ Lifecycle
    \/ LoggerCall

SpecLoggers == Init /\ [][NextLoggers]_vars

\* The session and calls of the Order logger.
NextOrderLogger ==
    \/ Lifecycle
    \/ OrderVals

SpecOrderLogger == Init /\ [][NextOrderLogger]_vars

\* The session, with the bootstrap and the lookups of callers drawing ids on
\* the callers' threads, and position events drawing ids on the reader's.
NextIds ==
    \/ Lifecycle
    \/ GetRegisteredContract
    \/ Position

SpecIds == Init /\ [][NextIds]_vars

\* The session and the construction of further clients.
NextConstruct ==
    \/ Lifecycle
    \/ NewClient

SpecConstruct == Init /\ [][NextConstruct]_vars

RealtimeBar ==
    \E reqId \in BarRequestIds :
        Deliver("realtimeBar", <<reqId, 100>>, realtimeBar(Cur, reqId, 100))

\* The session, the subscriptions to real-time bars and the bars.
NextBars ==
    \/ Lifecycle
    \/ ReqRealTimeBars
    \/ RealtimeBar

SpecBars == Init /\ [][NextBars]_vars

\* The session and the answers to contract-details requests.
NextDetails ==
    \/ Lifecycle
    \/ ContractDetailsEvent
    \/ BondContractDetails

SpecDetails == Init /\ [][NextDetails]_vars

\* The events handed to the secondary listener.
ListenerExecutions ==
    {[time |-> "20211104 10:00:00", acctNumber |-> "DU1", exchange |-> "NYSE", side |-> "BOT",
      shares |-> 10, price |-> 15000, cumQty |-> 10, avgPrice |-> 15000, liquidation |-> 0,
      evRule |-> "", evMultiplier |-> 0, modelCode |-> "", lastLiquidity |-> 1,
      execId |-> "e1", permId |-> 7, clientId |-> 0, orderId |-> 1, orderRef |-> ""]}
CommissionReports ==
    {[execId |-> "e1", currency |-> "USD", commission |-> 100, realizedPNL |-> 0,
      yield_ |-> 0, yieldRedemptionDate |-> 0]}
NewsProviderLists == {<<>>, <<"BRFG">>, <<"BRFG", "DJNL">>}

ListenerUpdateAccountValue ==
    \E a \in Accounts :
        DeliverListener("listener.updateAccountValue", <<"NetLiquidation", "100", "USD", a>>,
                        listener_updateAccountValue(ListenerCur, "NetLiquidation", "100", "USD", a))

ListenerUpdatePortfolio ==
    \E a \in Accounts, c \in Contracts :
        DeliverListener("listener.updatePortfolio", <<c, a>>,
                        listener_updatePortfolio(ListenerCur, c, 10, 5, 50, 4, 10, 0, a))

ListenerAccountSummary ==
    \E a \in Accounts :
        DeliverListener("listener.accountSummary", <<0, a, "NetLiquidation", "100", "USD">>,
                        listener_accountSummary(ListenerCur, 0, a, "NetLiquidation", "100", "USD"))

ListenerPosition ==
    \E a \in Accounts, c \in Contracts :
        DeliverListener("listener.position", <<a, c>>,
                        listener_position(ListenerCur, a, c, 10, 4))

ListenerExecDetails ==
    \E c \in Contracts, e \in ListenerExecutions :
        DeliverListener("listener.execDetails", <<0, c, e>>,
                        listener_execDetails(ListenerCur, 0, c, e))

ListenerCommissionReport ==
    \E r \in CommissionReports :
        DeliverListener("listener.commissionReport", <<r>>,
                        listener_commissionReport(ListenerCur, r))

ListenerNewsProviders ==
    \E ps \in NewsProviderLists :
        DeliverListener("listener.newsProviders", <<ps>>,
                        listener_newsProviders(ListenerCur, ps))

ListenerCompletedOrder ==
    \E c \in Contracts, o \in Orders, os \in OrderStates :
        DeliverListener("listener.completedOrder", <<c, o, os>>,
                        listener_completedOrder(ListenerCur, c, o, os))

ListenerOrderStatus ==
    \E orderId \in EventOrderIds :
        DeliverListener("listener.orderStatus", <<orderId, "Submitted">>,
                        listener_orderStatus(ListenerCur, orderId, "Submitted", 0, 10, 0, 7, 0, 0, 0, "", 0))

ListenerOpenOrder ==
    \E orderId \in EventOrderIds, c \in Contracts, o \in Orders, os \in OrderStates :
        DeliverListener("listener.openOrder", <<orderId, c, o, os>>,
                        listener_openOrder(ListenerCur, orderId, c, o, os))

ListenerHistoricalNews ==
    DeliverListener("listener.historicalNews", <<42, "2021-11-04", "BRFG", "a1", "headline">>,
                    listener_historicalNews(ListenerCur, 42, "2021-11-04", "BRFG", "a1", "headline"))

\* The secondary listener and the events it handles that are no end markers.
NextListener ==
    \/ ListenerUpdateAccountValue
    \/ ListenerUpdatePortfolio
    \/ ListenerAccountSummary
    \/ ListenerPosition
    \/ ListenerUpdateNewsBulletin
    \/ ListenerExecDetails
    \/ ListenerCommissionReport
    \/ ListenerNewsProviders
    \/ ListenerCompletedOrder
    \/ ListenerOrderStatus
    \/ ListenerOpenOrder
    \/ ListenerHistoricalNews

SpecListener == Init /\ [][NextListener]_vars

\* The session and every event that carries a contract.
NextBearing ==
    \/ Lifecycle
    \/ SymbolSamples
    \/ UpdatePortfolio
    \/ Position
    \/ OpenOrder
    \/ CompletedOrder
    \/ ExecDetails

SpecBearing == Init /\ [][NextBearing]_vars

\* The session, the callers of reqRealTimeBars statement by statement, and
\* the bars.
NextBarsSteps ==
    \/ Lifecycle
    \/ \E c \in Callers : reqRealTimeBars_first(c)
    \/ \E c \in Callers : reqRealTimeBars_second(c)
    \/ RealtimeBar

SpecBarsSteps == Init /\ [][NextBarsSteps]_vars

\* Account lists IB sends: one account, two, one with a trailing comma, and
\* the empty string.
AccountLists == {<<"DU1">>, <<"DU1", "DU2">>, <<"DU1", "">>, <<>>}

ManagedAccounts ==
    \E accountsList \in AccountLists :
        Deliver("managedAccounts", <<accountsList>>, managedAccounts(Cur, accountsList))

ListenerManagedAccounts ==
    \E accountsList \in AccountLists :
        DeliverListener("listener.managedAccounts", <<accountsList>>,
                        listener_managedAccounts(ListenerCur, accountsList))

ListenerConnect == DeliverListener("listener.connect", <<>>, listener_connect(ListenerCur))

\* The session, the account lists IB sends, and the secondary listener's
\* bootstrap and account lists.
NextAccounts ==
    \/ Lifecycle
    \/ ManagedAccounts
    \/ ListenerManagedAccounts
    \/ ListenerConnect

SpecAccounts == Init /\ [][NextAccounts]_vars

\* ---------------------------------------------------------------- claims

AlreadyConnected == "Exception: IbTwsClient is already connected."

\* A reader dispatched the named event in this step.
Dispatches(name) == dispatched' = dispatched + 1 /\ last'.name = name

\* C1: connect on a connected client raises the already-connected error
\* without opening a transport, and leaves the connection, the thread, the
\* registry, the order-id queue, the market-rule set, the bar-size map,
\* the tables and the transport as they were.
C1_ConnectWhileConnected ==
    [][\A c \in Callers :
          (connected /\ pc[c] = "idle") =>
              /\ pc'[c] # "connect_opened"
              /\ connects' = connects
              /\ (result'[c] # result[c] /\ result'[c].op = "connect") =>
                     /\ result'[c].exc = AlreadyConnected
                     /\ UNCHANGED <<connected, thread, readers, session,
                                    table_writers, sent, unique_id>>]_vars

C1_Witness ==
    /\ result["main"].op = "connect"
    /\ result["main"].exc = AlreadyConnected
    /\ connected
    /\ ~IsNone(contract_registry)
    /\ DOMAIN Val(contract_registry) # {}
    /\ Len(table_writers["accounts_positions"]) > 0

\* C2: the order-id queue is first in, first out: a new claim goes to the
\* back; a nextValidId that finds pending claims completes the oldest one
\* with its value and nothing else; one that finds none changes nothing,
\* so a later claim starts without a value; get returns the claim's value.
C2_OrderIdQueueFifo ==
    [][/\ (Dispatches("nextValidId") /\ ~IsNone(order_id_queue)) =>
              LET q == Val(order_id_queue)
                  v == last'.args[1]
              IN  IF q # <<>>
                  THEN /\ handle' = [handle EXCEPT ![Head(q)] = Some(v)]
                       /\ order_id_queue' = Some(Tail(q))
                  ELSE /\ handle' = handle
                       /\ order_id_queue' = order_id_queue
       /\ \A c \in Callers :
              /\ (pc[c] = "idle" /\ pc'[c] = "reqIds") =>
                     /\ order_id_queue' = Some(Append(Val(order_id_queue), c))
                     /\ IsNone(handle'[c])
              /\ (pc[c] = "get" /\ pc'[c] = "idle") =>
                     /\ ~IsNone(handle[c])
                     /\ result'[c].val = handle[c]]_vars

C2_Witness ==
    /\ dispatched = 3
    /\ last.name = "nextValidId"
    /\ order_id_queue = Some(<<>>)
    /\ result["main"].val = Some(101)
    /\ result["worker"].val = Some(102)
    /\ \A c \in Callers : pc[c] = "idle"

\* The callers inside next_order_id whose claim has no value yet.
Waiting == {c \in Callers : pc[c] \in {"reqIds", "get"} /\ IsNone(handle[c])}
Queued == IF IsNone(order_id_queue) THEN {}
          ELSE {Val(order_id_queue)[i] : i \in DOMAIN Val(order_id_queue)}

\* The claims and the values pair up one to one.
ClaimsPaired ==
    /\ ~IsNone(order_id_queue) =>
           /\ Cardinality(Queued) = Len(Val(order_id_queue))
           /\ Queued \subseteq Waiting
    /\ (connects = 1 /\ connected) => Waiting \subseteq Queued

\* C3: while callers enqueue claims and the reader hands out nextValidId
\* values, every waiting claim is in the queue exactly once (none is lost),
\* one event completes at most one claim, with the event's value, and a
\* completed claim is never given another value.
C3_OneValuePerClaim ==
    [][/\ ClaimsPaired'
       /\ Cardinality({c \in Callers : IsNone(handle[c]) /\ ~IsNone(handle'[c])}) <= 1
       /\ \A c \in Callers :
              /\ (~IsNone(handle[c]) /\ ~IsNone(handle'[c])) => handle'[c] = handle[c]
              /\ (IsNone(handle[c]) /\ ~IsNone(handle'[c])) =>
                     /\ Dispatches("nextValidId")
                     /\ handle'[c] = Some(last'.args[1])]_vars

C3_Witness ==
    /\ connects = 1 /\ connected
    /\ pc["main"] = "get" /\ ~IsNone(handle["main"])
    /\ pc["worker"] = "get" /\ IsNone(handle["worker"])
    /\ order_id_queue = Some(<<"worker">>)

\* C4: next_order_id returns only with the value a dispatched nextValidId
\* gave its claim (it never returns on its own), and when IB answers every
\* reqIds every call that enqueued its claim returns.
C4_NextOrderIdReturns ==
    /\ [][\A c \in Callers :
             (pc[c] = "get" /\ pc'[c] = "idle") =>
                 /\ ~IsNone(handle[c])
                 /\ result'[c] = Returned("next_order_id", None, "", handle[c])]_vars
    /\ [](\A c \in Callers :
             ~IsNone(handle[c]) => dispatched > 0 /\ Val(handle[c]) \in OrderIdValues)
    /\ \A c \in Callers : (pc[c] = "reqIds") ~> (pc[c] = "idle")

C4_Witness ==
    /\ result["worker"].op = "next_order_id"
    /\ result["worker"].val = Some(102)
    /\ pc["worker"] = "idle"
    /\ dispatched = 2

Fingerprints == {Fingerprint(c) : c \in Contracts}

\* The contract-details requests on the transport for one fingerprint.
LookupsSent(fp) ==
    Cardinality({i \in DOMAIN sent : /\ sent[i].req = "reqContractDetails"
                                     /\ Fingerprint(sent[i].arg) = fp})

\* The contracts a dispatched event hands to the registry.
EventContracts(ev) ==
    CASE ev.name = "position" -> {ev.args[2]}
      [] ev.name = "updatePortfolio" -> {ev.args[1]}
      [] ev.name = "symbolSamples" -> {ev.args[2][i].contract : i \in DOMAIN ev.args[2]}
      [] ev.name = "openOrder" ->
             IF ev.args[1] = ev.args[3].orderId THEN {ev.args[2]} ELSE {}
      [] ev.name = "completedOrder" -> {ev.args[1]}
      [] ev.name = "execDetails" -> {ev.args[2]}
      [] OTHER -> {}

Bearing == {"position", "updatePortfolio", "symbolSamples", "openOrder",
            "completedOrder", "execDetails"}

DispatchesBearing == dispatched' = dispatched + 1 /\ last'.name \in Bearing

\* C5: calls of request_contract_details_nonblocking for one fingerprint
\* before any resolution put exactly one request on the transport (the
\* first call sends it and records it as pending, later ones send nothing),
\* and contract details arriving for the fingerprint or for the request id
\* resolve the one entry that every such caller looks up.
C5_InFlightDeduplicated ==
    [][~IsNone(contract_registry) =>
          LET reg == Val(contract_registry)
          IN  /\ \A fp \in Fingerprints :
                     IF fp \in DOMAIN reg
                     THEN LookupsSent(fp)' = LookupsSent(fp)
                     ELSE LookupsSent(fp) = 0 /\ LookupsSent(fp)' <= 1
              /\ DispatchesBearing =>
                     \A k \in EventContracts(last') :
                         /\ ~IsNone(contract_registry')
                         /\ Fingerprint(k) \in DOMAIN Val(contract_registry')
                         /\ Fingerprint(k) \notin DOMAIN reg =>
                                /\ LookupsSent(Fingerprint(k))' = 1
                                /\ IsPending(Val(contract_registry')[Fingerprint(k)])
              /\ Dispatches("contractDetails") =>
                     LET reqId == last'.args[1]
                         cd == last'.args[2]
                         reg2 == Val(contract_registry')
                     IN  /\ ~IsNone(contract_registry')
                         /\ Fingerprint(cd.contract) \in DOMAIN reg2
                         /\ reg2[Fingerprint(cd.contract)].details = Some(cd)
                         /\ \A f \in DOMAIN reg :
                                (IsPending(reg[f]) /\ reg[f].req_id = reqId) =>
                                    reg2[f].details = Some(cd)]_vars

C5_Witness ==
    /\ last.name = "contractDetails"
    /\ Len(table_writers["contracts_matching"]) = 2
    /\ table_writers["contracts_matching"][1][2] # table_writers["contracts_matching"][2][2]
    /\ LookupsSent("AAPL") = 1
    /\ LookupsSent("IBM") = 0
    /\ ~IsNone(contract_registry)
    /\ "AAPL" \in DOMAIN Val(contract_registry)
    /\ Val(contract_registry)["AAPL"].details = Some(last.args[2])

\* C6: an error event whose request id is that of a pending lookup turns the
\* lookup's entry into a failed entry with the event's error text: the entry
\* is no longer pending and holds no contract details.
C6_ErrorFailsPendingLookup ==
    [][(Dispatches("error") /\ ~IsNone(contract_registry)) =>
          /\ ~IsNone(contract_registry')
          /\ \A fp \in DOMAIN Val(contract_registry) :
                 LET entry == Val(contract_registry)[fp]
                     entry2 == Val(contract_registry')[fp]
                 IN  (IsPending(entry) /\ entry.req_id = last'.args[1]) =>
                         /\ entry2.error = Some(last'.args[3])
                         /\ IsNone(entry2.details)
                         /\ ~IsPending(entry2)]_vars

C6_Witness ==
    /\ last.name = "error"
    /\ ~IsNone(contract_registry)
    /\ \E fp \in DOMAIN Val(contract_registry) :
           /\ Val(contract_registry)[fp].req_id = last.args[1]
           /\ Val(contract_registry)[fp].error = Some("Invalid symbol")
           /\ last.args[3] = "Invalid symbol"

MismatchedIds == "Exception: Order IDs do not match"

\* C9: an openOrder event whose order id differs from the order's own raises
\* at once, writes no row to any table and asks for no lookup; one whose ids
\* match appends exactly one row, to orders_open.
C9_OpenOrderIdCheck ==
    [][Dispatches("openOrder") =>
          LET orderId == last'.args[1]
              contract == last'.args[2]
              order == last'.args[3]
              orderState == last'.args[4]
          IN  IF orderId # order.orderId
              THEN /\ last'.exc = MismatchedIds
                   /\ UNCHANGED <<table_writers, sent, unique_id, session>>
              ELSE /\ last'.exc # MismatchedIds
                   /\ table_writers' =
                          [table_writers EXCEPT !["orders_open"] =
                              Append(@, <<logger_vals(contract), logger_vals(order),
                                          logger_vals(orderState)>>)]]_vars

C9_Witness ==
    /\ last.name = "openOrder"
    /\ last.exc = MismatchedIds
    /\ Len(table_writers["orders_open"]) = 1
    /\ connected

\* The four structures are absent.
Discarded ==
    /\ IsNone(contract_registry)
    /\ IsNone(order_id_queue)
    /\ IsNone(registered_market_rules)
    /\ IsNone(realtime_bar_sizes)

\* C10: once disconnect has returned the four structures are gone and stay
\* gone until the next connect's bootstrap, that connect is not refused, and
\* its bootstrap creates all four empty.
C10_DisconnectDiscards ==
    [][/\ (pc["main"] = "disconnecting" /\ pc'["main"] = "idle") => Discarded'
       /\ ((pc["main"] = "idle" /\ ~connected) \/ pc["main"] \in {"connect_opened",
               "connect_started"}) => Discarded
       /\ (pc["main"] = "idle" /\ ~connected /\ result'["main"] # result["main"]
               /\ result'["main"].op = "connect") => result'["main"].exc = ""
       /\ (pc["main"] = "connect_started" /\ pc'["main"] = "connect_subscribed") =>
              /\ contract_registry' = Some(ContractRegistry)
              /\ order_id_queue' = Some(OrderIdEventQueue)
              /\ registered_market_rules' = Some({})
              /\ realtime_bar_sizes' = Some(<<>>)]_vars

C10_Witness ==
    /\ connects = 2
    /\ result["main"] = Returned("connect", None, "", None)
    /\ pc["main"] = "idle"
    /\ connected
    /\ unique_id = 7
    /\ Len(table_writers["accounts_positions"]) = 1
    /\ contract_registry = Some(ContractRegistry)
    /\ order_id_queue = Some(OrderIdEventQueue)
    /\ registered_market_rules = Some({})

\* disconnect has returned and no connect has begun.
Disconnected == ~connected /\ pc["main"] = "idle"

\* C11: once disconnect has returned no event is dispatched and no row is
\* appended to any table, and at no time is more than one reader thread
\* dispatching.
C11_DisconnectStopsReader ==
    /\ [][Disconnected => (dispatched' = dispatched /\ table_writers' = table_writers)]_vars
    /\ [](readers <= 1)

IsPrefix(a, b) == Len(a) <= Len(b) /\ SubSeq(b, 1, Len(a)) = a

\* C13: the tables are append-only: every step leaves the set of tables as
\* it is and each table's rows as a prefix of its rows afterwards; connect,
\* disconnect and reconnect change no table but "requests", which the
\* bootstrap extends.
C13_TablesAppendOnly ==
    [][/\ DOMAIN table_writers' = TableNames
       /\ \A n \in TableNames : IsPrefix(table_writers[n], table_writers'[n])
       /\ dispatched' = dispatched =>
              \A n \in TableNames \ {"requests"} :
                  table_writers'[n] = table_writers[n]]_vars

C13_Witness ==
    /\ connects = 2
    /\ pc["main"] = "connect_subscribed"
    /\ Len(table_writers["requests"]) = 4
    /\ Len(table_writers["errors"]) = 1
    /\ dispatched = 1

\* C14: an error event never raises: in every session state it appends
\* exactly one row (request id, code, catalog message or UNKNOWN(code), raw
\* text, catalog note or UNKNOWN(code)) to "errors", and the registry
\* receives the request id and text exactly when a registry exists.
C14_ErrorAlwaysLogged ==
    [][Dispatches("error") =>
          LET reqId == last'.args[1]
              code == last'.args[2]
              text == last'.args[3]
              row == IF code = 200
                     THEN <<reqId, code,
                            "No security definition has been found for the request",
                            text,
                            "The specified contract does not match any in IB's database">>
                     ELSE <<reqId, code, "UNKNOWN(999)", text, "UNKNOWN(999)">>
          IN  /\ last'.exc = ""
              /\ readers' = readers
              /\ table_writers' = [table_writers EXCEPT !["errors"] = Append(@, row)]
              /\ UNCHANGED <<sent, unique_id, order_id_queue>>
              /\ IF IsNone(contract_registry)
                 THEN IsNone(contract_registry')
                 ELSE contract_registry' =
                          Some(add_error_data(Val(contract_registry), reqId, text))]_vars

C14_Witness ==
    /\ last.name = "error"
    /\ last.args[2] = 999
    /\ pc["main"] = "connect_started"
    /\ IsNone(contract_registry)
    /\ Len(table_writers["errors"]) = 2
    /\ table_writers["errors"][1][2] = 200
    /\ table_writers["errors"][2][3] = "UNKNOWN(999)"

\* The rows the bootstrap added to "requests" in this step.
RequestsLogged == SubSeq(table_writers'["requests"],
                         Len(table_writers["requests"]) + 1,
                         Len(table_writers'["requests"]))

\* C16: each request the bootstrap logs went to IB under the request id of
\* its "requests" row.
C16_LoggedIdIsSentId ==
    [][(pc["main"] = "connect_started" /\ pc'["main"] = "connect_subscribed") =>
          /\ Len(RequestsLogged) = 2
          /\ \A i \in DOMAIN RequestsLogged :
                 \E j \in DOMAIN sent' :
                     /\ sent'[j].req = "req" \o RequestsLogged[i][2]
                     /\ sent'[j].id = RequestsLogged[i][1]]_vars

\* The reqMarketRule requests on the transport for one market-rule id.
RulesSent(id) ==
    Cardinality({i \in DOMAIN sent : sent[i].req = "reqMarketRule" /\ sent[i].id = id})

\* C17: within one connection each market-rule id is requested at most
\* once, whatever the order of contract details and marketRule events.
C17_NoDuplicateMarketRuleRequest == \A id \in MarketRuleIds : RulesSent(id) <= 1

\* What the registered set does achieve: a rule whose marketRule event has
\* arrived is not requested again.
C17_RegisteredNotRequested ==
    [][\A id \in MarketRuleIds :
          (~IsNone(registered_market_rules)
              /\ StrOfInt[id] \in Val(registered_market_rules)) =>
                 RulesSent(id)' = RulesSent(id)]_vars

C17_Witness ==
    /\ last.name = "contractDetails"
    /\ last.exc = ""
    /\ ~IsNone(registered_market_rules)
    /\ Val(registered_market_rules) = {"26"}
    /\ last.args[2].marketRuleIds = <<"26", "240">>
    /\ RulesSent(26) = 0
    /\ RulesSent(240) = 1

\* The table a market-data event targets and the rows it carries for it, in
\* the order of the event's list.
TargetTable(ev) ==
    CASE ev.name = "tickPrice" -> "ticks_price"
      [] ev.name \in {"tickByTickAllLast", "historicalTicksLast"} -> "ticks_trade"
      [] ev.name = "historicalTicksBidAsk" -> "ticks_bid_ask"
      [] ev.name = "historicalTicks" -> "ticks_mid_point"

TargetRows(ev) ==
    CASE ev.name = "tickPrice" ->
             <<<<ev.args[1], TickTypeEnum_to_str[ev.args[2]], ev.args[3],
                 ev.args[4].canAutoExecute, ev.args[4].pastLimit, ev.args[4].preOpen>>>>
      [] ev.name = "tickByTickAllLast" ->
             <<<<ev.args[1],
                 [time |-> ev.args[3], tickAttribLast |-> ev.args[6], price |-> ev.args[4],
                  size |-> ev.args[5], exchange |-> ev.args[7],
                  specialConditions |-> ev.args[8]]>>>>
      [] ev.name \in {"historicalTicksLast", "historicalTicksBidAsk"} ->
             [i \in DOMAIN ev.args[2] |-> <<ev.args[1], ev.args[2][i]>>]
      [] ev.name = "historicalTicks" ->
             [i \in DOMAIN ev.args[2] |->
                 <<ev.args[1], [seconds |-> ev.args[2][i].time, nanos |-> 0],
                   ev.args[2][i].price>>]

\* C12: events are dispatched one at a time, and each dispatch extends the
\* table its event targets by exactly the event's rows, contiguous and in
\* list order, leaving every other table as it is: a table's rows are the
\* rows of its events in the order the events arrived.
C12_RowsInArrivalOrder ==
    [][/\ dispatched' \in {dispatched, dispatched + 1}
       /\ dispatched' = dispatched + 1 =>
              /\ last'.exc = ""
              /\ table_writers' =
                     [table_writers EXCEPT ![TargetTable(last')] = @ \o TargetRows(last')]]_vars

C12_Witness ==
    /\ last.name = "tickByTickAllLast"
    /\ Len(table_writers["ticks_trade"]) = 3
    /\ table_writers["ticks_trade"][1][2].time = 1
    /\ table_writers["ticks_trade"][2][2].time = 2
    /\ table_writers["ticks_trade"][3][2].time = 4
    /\ dispatched = 2

EndMarkers == {"contractDetailsEnd", "tickSnapshotEnd", "historicalDataEnd",
               "openOrderEnd", "completedOrdersEnd", "execDetailsEnd",
               "historicalNewsEnd", "listener.historicalNewsEnd"}

\* C15: the handler of every end-of-list marker returns normally, appends
\* no row and changes no internal state.
C15_EndMarkersAccepted ==
    [][(dispatched' = dispatched + 1 /\ last'.name \in EndMarkers) =>
          /\ last'.exc = ""
          /\ UNCHANGED <<table_writers, session, sent, unique_id, handle, readers,
                         connected, thread>>]_vars

\* The markers whose handlers call the base-class hook do satisfy it.
C15_HookedEndMarkersAccepted ==
    [][(dispatched' = dispatched + 1
           /\ last'.name \in EndMarkers \ {"historicalNewsEnd", "listener.historicalNewsEnd"}) =>
          /\ last'.exc = ""
          /\ UNCHANGED <<table_writers, session, sent, unique_id, handle, readers,
                         connected, thread>>]_vars

C15_Witness ==
    /\ last.name = "historicalNewsEnd"
    /\ last.exc = "RecursionError"
    /\ readers = 0
    /\ connected
    /\ dispatched = 2

\* C18: a tickPrice event appends exactly one row (request id, tick-type
\* name, price, canAutoExecute, pastLimit, preOpen) to ticks_price and
\* changes nothing else; request 42, BID, 101.25 and (true, false, false)
\* give (42, "BID", 101.25, true, false, false).
C18_TickPriceRow ==
    [][Dispatches("tickPrice") =>
          LET reqId == last'.args[1]
              tickType == last'.args[2]
              price == last'.args[3]
              ta == last'.args[4]
              name == IF tickType = 1 THEN "BID" ELSE "ASK"
              row == <<reqId, name, price, ta.canAutoExecute, ta.pastLimit, ta.preOpen>>
          IN  /\ last'.exc = ""
              /\ table_writers' = [table_writers EXCEPT !["ticks_price"] = Append(@, row)]
              /\ UNCHANGED <<session, sent, unique_id, handle, readers>>
              /\ (reqId = 42 /\ tickType = 1 /\ price = 10125 /\ ta.canAutoExecute
                      /\ ~ta.pastLimit /\ ~ta.preOpen) =>
                     table_writers'["ticks_price"][Len(table_writers'["ticks_price"])]
                         = <<42, "BID", 10125, TRUE, FALSE, FALSE>>]_vars

C18_Witness ==
    /\ last.name = "tickPrice"
    /\ table_writers["ticks_price"] = <<<<42, "BID", 10125, TRUE, FALSE, FALSE>>>>
    /\ \A n \in TableNames \ {"ticks_price", "requests"} : table_writers[n] = <<>>

\* The label of a bulletin's message type.
MsgTypeLabel(msgType) ==
    IF msgType = 1 THEN "NEWS"
    ELSE IF msgType = 2 THEN "EXCHANGE_AVAILABLE"
    ELSE IF msgType = 3 THEN "EXCHANGE_UNAVAILABLE"
    ELSE "UNKNOWN(" \o ToString(msgType) \o ")"

BulletinTable(name) ==
    IF name = "updateNewsBulletin" THEN "news_bulletins" ELSE "listener.news_bulletins"

\* C19: every updateNewsBulletin event, whichever handler receives it,
\* returns normally and appends exactly one row to its news_bulletins table
\* whose MsgType is NEWS, EXCHANGE_AVAILABLE or EXCHANGE_UNAVAILABLE for
\* IB's three message types and UNKNOWN(N) for any other N.
C19_BulletinLabelled ==
    [][(dispatched' = dispatched + 1
           /\ last'.name \in {"updateNewsBulletin", "listener.updateNewsBulletin"}) =>
          /\ last'.exc = ""
          /\ table_writers' =
                 [table_writers EXCEPT ![BulletinTable(last'.name)] =
                     Append(@, <<last'.args[1], MsgTypeLabel(last'.args[2]),
                                 last'.args[3], last'.args[4]>>)]]_vars

\* The client's handler does satisfy it.
C19_ClientBulletinLabelled ==
    [][Dispatches("updateNewsBulletin") =>
          /\ last'.exc = ""
          /\ table_writers' =
                 [table_writers EXCEPT !["news_bulletins"] =
                     Append(@, <<last'.args[1], MsgTypeLabel(last'.args[2]),
                                 last'.args[3], last'.args[4]>>)]]_vars

C19_Witness ==
    /\ last.name = "listener.updateNewsBulletin"
    /\ last.args[2] = 7
    /\ last.exc = "TypeError"
    /\ table_writers["listener.news_bulletins"] = <<>>
    /\ Len(table_writers["news_bulletins"]) = 2
    /\ table_writers["news_bulletins"][1][2] = "EXCHANGE_UNAVAILABLE"
    /\ table_writers["news_bulletins"][2][2] = "UNKNOWN(7)"

\* C20: a write_row call with a number of values other than the table's
\* number of columns fails with a schema mismatch and leaves the table as it
\* was; a call with the right number, also after a failed one, appends the
\* values as one row; no table ever holds a row of another length.
C20_SchemaMismatchAppendsNothing ==
    /\ [][calls' = calls + 1 =>
             LET r == result'["main"]
                 name == Val(r.arg)[1]
                 values == Val(r.arg)[2]
             IN  /\ r.op = "write_row"
                 /\ IF Len(values) # Len(Columns(name))
                    THEN r.exc = "SchemaMismatch" /\ table_writers' = table_writers
                    ELSE /\ r.exc = ""
                         /\ table_writers' =
                                [table_writers EXCEPT ![name] = Append(@, values)]]_vars
    /\ [](\A n \in TableNames : \A i \in DOMAIN table_writers[n] :
             Len(table_writers[n][i]) = Len(Columns(n)))

C20_Witness ==
    /\ result["main"].op = "write_row"
    /\ result["main"].exc = ""
    /\ calls = 2
    /\ dispatched = 1
    /\ Len(table_writers["errors"]) = 2
    /\ table_writers["errors"][1] = <<1, 2, 3, 4, 5>>
    /\ table_writers["ticks_mid_point"] = <<>>
    /\ last.name = "error"

\* C21: every logger of the module gives names(), types() and vals(obj) of
\* the same length, one entry per column of its list and in the list's
\* order, so that position i of each refers to the same column.
C21_LoggersAligned ==
    [](result["main"].op = "logger" =>
          LET details == column_details(Val(result["main"].arg))
              out == Val(result["main"].val)
          IN  /\ result["main"].exc = ""
              /\ Len(out[1]) = Len(details)
              /\ Len(out[2]) = Len(details)
              /\ Len(out[3]) = Len(details)
              /\ \A i \in DOMAIN details :
                     /\ out[1][i] = details[i][1]
                     /\ out[2][i] = details[i][2]
                     /\ out[3][i] = Extract(details[i], SyntheticObject(details)))

C21_Witness ==
    /\ result["main"].op = "logger"
    /\ result["main"].arg = Some("IbContractDetailsLogger")
    /\ result["main"].exc = "SyntaxError"

\* The labels listed for each coded column of an order, the attribute each
\* coded column shows, and the columns whose codes are letters.
ListedLabels(column) ==
    CASE column = "OcaType" ->
             (1 :> "CancelL_With_Block") @@ (2 :> "Reduce_With_Block") @@ (3 :> "Reduce_Non_Block")
      [] column = "TriggerMethod" ->
             (0 :> "Default") @@ (1 :> "Double_Bid_Ask") @@ (2 :> "Last") @@ (3 :> "Double_Last") @@ (4 :> "Bid_Ask") @@ (7 :> "Last_or_Bid_Ask") @@ (8 :> "Mid-point")
      [] column = "Rule80A" ->
             ("I" :> "Individual") @@ ("A" :> "Agency") @@ ("W" :> "AgentOtherMember") @@ ("J" :> "IndividualPTIA") @@ ("U" :> "AgencyPTIA") @@ ("M" :> "AgentOtherMemberPTIA") @@ ("K" :> "IndividualPT") @@ ("Y" :> "AgencyPT") @@ ("N" :> "AgentOtherMemberPT")
      [] column = "OpenClose" ->
             ("O" :> "Open") @@ ("C" :> "Close")
      [] column = "Origin" ->
             (0 :> "Customer") @@ (1 :> "Firm") @@ (2 :> "Unknown")
      [] column = "ShortSaleSlot" ->
             (1 :> "Holding") @@ (2 :> "Elsewhere")
      [] column = "VolatilityType" ->
             (1 :> "Daily") @@ (2 :> "Annual")
      [] column = "ReferencePriceType" ->
             (1 :> "Average") @@ (2 :> "BidOrAsk")
      [] column = "HedgeType" ->
             ("D" :> "Delta") @@ ("B" :> "Beta") @@ ("F" :> "FX") @@ ("P" :> "Pair")
      [] column = "AuctionStrategy" ->
             (0 :> "Unset") @@ (1 :> "Match") @@ (2 :> "Improvement") @@ (3 :> "Transparent")

CodedAttribute ==
    [OcaType |-> "ocaType", TriggerMethod |-> "triggerMethod", Rule80A |-> "rule80A",
     OpenClose |-> "openClose", Origin |-> "origin", ShortSaleSlot |-> "shortSaleSlot",
     VolatilityType |-> "volatilityType", ReferencePriceType |-> "referencePriceType",
     HedgeType |-> "hedgeType", AuctionStrategy |-> "auctionStrategy"]
LetterCoded == {"Rule80A", "OpenClose", "HedgeType"}

\* The cell of the named column among the values of an order.
OrderCell(values, column) ==
    values[CHOOSE i \in DOMAIN logger_order : logger_order[i][1] = column]

IdRequests == {"reqAccountSummary", "reqExecutions", "reqContractDetails"}
SentIds(requests) ==
    LET RECURSIVE ids(_)
        ids(i) == IF i > Len(requests) THEN <<>>
                  ELSE IF requests[i].req \in IdRequests
                       THEN <<requests[i].id>> \o ids(i + 1)
                       ELSE ids(i + 1)
    IN  ids(1)
LoggedIds(rows) == [i \in DOMAIN rows |-> rows[i][1]]
Increasing(ids) == \A i, j \in DOMAIN ids : i < j => ids[i] < ids[j]

\* C23: the ids next_unique_id returns are pairwise distinct and increase
\* from call to call, whichever thread calls: the counter never goes back,
\* every id used in a step is above every id returned before the step, and
\* the ids sent on a transport and the ids logged each increase strictly.
C23_UniqueIdsIncrease ==
    /\ [][/\ unique_id' >= unique_id
          /\ LET new == IF IsPrefix(sent, sent')
                         THEN SubSeq(sent', Len(sent) + 1, Len(sent'))
                         ELSE sent'
             IN  \A i \in DOMAIN SentIds(new) :
                     SentIds(new)[i] \in (unique_id + 1)..unique_id'
          /\ \A i \in DOMAIN table_writers'["requests"] :
                 i > Len(table_writers["requests"]) =>
                     table_writers'["requests"][i][1] \in (unique_id + 1)..unique_id']_vars
    /\ [](Increasing(SentIds(sent)))
    /\ [](Increasing(LoggedIds(table_writers["requests"])))
    /\ [](\A i \in DOMAIN sent : sent[i].req \in IdRequests => sent[i].id <= unique_id)

C23_Witness ==
    /\ LoggedIds(table_writers["requests"]) = <<1, 2, 5, 6>>
    /\ SentIds(sent) = <<5, 7>>
    /\ last.name = "position"

\* The tables mapping handed back by a construction, and the number of loads
\* the construction attempted.
Constructed == result["main"].op = "IbTwsClient"
ConstructedTables == Val(result["main"].val)[1]
ConstructedLoads == Val(result["main"].val)[2]
EventTables == TableNames \ ListenerTables

\* C24: a construction with the download enabled whose load fails still
\* gives a client, whose tables mapping holds every event table and no
\* short_rates; a construction with the download disabled attempts no load
\* and its mapping holds no short_rates.
C24_ShortRateFailureNonFatal ==
    [](Constructed =>
          LET download_short_rates == Val(result["main"].arg)[1]
              outcome == Val(result["main"].arg)[2]
          IN  /\ download_short_rates /\ outcome = "raises" =>
                     /\ result["main"].exc = ""
                     /\ ~IsNone(ConstructedTables)
                     /\ DOMAIN Val(ConstructedTables) = EventTables
              /\ ~download_short_rates =>
                     /\ result["main"].exc = ""
                     /\ ConstructedLoads = 0
                     /\ DOMAIN Val(ConstructedTables) = EventTables)

\* The part of C24 about the disabled download, and the successful load.
C24_DisabledSkipsLoad ==
    [](Constructed =>
          LET download_short_rates == Val(result["main"].arg)[1]
              outcome == Val(result["main"].arg)[2]
          IN  /\ ~download_short_rates =>
                     /\ result["main"].exc = ""
                     /\ ConstructedLoads = 0
                     /\ DOMAIN Val(ConstructedTables) = EventTables
              /\ download_short_rates /\ outcome = "table" =>
                     DOMAIN Val(ConstructedTables) = EventTables \cup {"short_rates"})

C24_Witness ==
    /\ Constructed
    /\ result["main"].arg = Some(<<TRUE, "raises">>)
    /\ result["main"].exc = "LoadFailed"
    /\ IsNone(ConstructedTables)

\* C25: every row of every output table is appended by the reader thread:
\* a step that changes a table is the dispatch of an event, never a step of
\* a caller's thread, the bootstrap's log_request included.
C25_OnlyReaderWrites ==
    [][table_writers' # table_writers => dispatched' = dispatched + 1]_vars

\* The caller's thread has appended the bootstrap's rows to requests while
\* the reader thread it started is running.
C25_Witness ==
    /\ pc["main"] = "connect_subscribed"
    /\ readers > 0
    /\ dispatched > 0
    /\ Len(table_writers["requests"]) = 2
    /\ Len(table_writers["errors"]) = 1

\* C26: while a reader thread runs, the contract registry, the set of
\* registered market rules and the bar-size map are changed or replaced only
\* by the dispatch of an event, never by a step of a caller's thread
\* (connect's bootstrap, disconnect, reqRealTimeBars).
C26_OnlyReaderMutates ==
    [][readers > 0 /\ <<contract_registry, registered_market_rules,
                        realtime_bar_sizes>>' #
                       <<contract_registry, registered_market_rules, realtime_bar_sizes>>
          => dispatched' = dispatched + 1]_vars

\* A caller's reqRealTimeBars has written the bar-size map while the reader
\* thread, which has read it for an earlier bar, runs.
C26_Witness ==
    /\ readers > 0
    /\ last.name = "realtimeBar"
    /\ last.exc = ""
    /\ result["worker"].op = "reqRealTimeBars"
    /\ ~IsNone(realtime_bar_sizes)
    /\ Val(realtime_bar_sizes)[7] = 30
    /\ Len(table_writers["bars_realtime"]) = 1
    /\ table_writers["bars_realtime"][1][2].endTime = 105

\* The bootstrap sequence, request by request, without the request ids.
BootstrapSequence ==
    <<[req |-> "reqManagedAccts", arg |-> None],
      [req |-> "reqAccountSummary", arg |-> <<"All", account_summary_tags>>],
      [req |-> "reqPositions", arg |-> None],
      [req |-> "reqNewsBulletins", arg |-> Some(TRUE)],
      [req |-> "reqExecutions", arg |-> None],
      [req |-> "reqCompletedOrders", arg |-> Some(FALSE)],
      [req |-> "reqNewsProviders", arg |-> None],
      [req |-> "reqAllOpenOrders", arg |-> None],
      [req |-> "reqFamilyCodes", arg |-> None]>>
BootstrapRequests == {BootstrapSequence[i].req : i \in DOMAIN BootstrapSequence}

\* The bootstrap requests among the requests given, in their order.
BootstrapSent(requests) ==
    LET RECURSIVE from(_)
        from(i) == IF i > Len(requests) THEN <<>>
                   ELSE IF requests[i].req \in BootstrapRequests
                        THEN <<[req |-> requests[i].req, arg |-> requests[i].arg]>> \o from(i + 1)
                        ELSE from(i + 1)
    IN  from(1)

\* A connect of this session has run its bootstrap and the transport is open.
BootstrapDone ==
    \/ pc["main"] = "connect_subscribed"
    \/ connected /\ pc["main"] = "idle"

\* The bootstrap requests on the session's transport after a connect are the
\* bootstrap sequence, each request once and in order, and the tag list ends
\* in $LEDGER.
C27_ClientBootstrapInOrder ==
    /\ account_summary_tags[Len(account_summary_tags)] = "$LEDGER"
    /\ BootstrapDone => BootstrapSent(sent) = BootstrapSequence

\* C27: a connect issues the bootstrap sequence once and in order, on the
\* session's transport and on the client of a secondary listener, and the
\* request for the managed accounts is the first request on a transport, so
\* that it precedes every reqAccountUpdates.
C27_BootstrapOnceInOrder ==
    /\ [](C27_ClientBootstrapInOrder)
    /\ [](last.name = "listener.connect" => BootstrapSent(last.reqs) = BootstrapSequence)
    /\ [](sent # <<>> => sent[1].req = "reqManagedAccts")
    /\ [](\A i \in DOMAIN sent :
             sent[i].req = "reqAccountUpdates" =>
                 \E j \in 1..(i - 1) : sent[j].req = "reqManagedAccts")

\* The bootstrap of a connect follows a subscription to account updates that
\* an early managedAccounts event caused.
C27_Witness ==
    /\ BootstrapDone
    /\ Len(sent) = 10
    /\ sent[1].req = "reqAccountUpdates"
    /\ sent[2].req = "reqManagedAccts"
    /\ BootstrapSent(sent) = BootstrapSequence

\* The callbacks that use the contract registry, the set of registered
\* market rules or the bar-size map.
StructureHandlers ==
    {"contractDetails", "bondContractDetails", "symbolSamples", "marketRule",
     "updatePortfolio", "position", "realtimeBar", "openOrder", "completedOrder",
     "execDetails"}

\* C28: whenever a reader thread dispatches an event to a callback that uses
\* the contract registry, the set of registered market rules or the bar-size
\* map, these structures exist, and the callback does not fail for want of
\* one: also between the start of the reader thread and the bootstrap, and
\* while disconnect runs.
C28_StructuresExistAtDispatch ==
    [][dispatched' = dispatched + 1 /\ last'.name \in StructureHandlers =>
          /\ ~IsNone(contract_registry)
          /\ ~IsNone(registered_market_rules)
          /\ ~IsNone(realtime_bar_sizes)
          /\ last'.exc \notin {"AttributeError", "TypeError"}]_vars

\* A position event dispatched before the bootstrap found no registry, and
\* the reader thread ended with the exception, while connect goes on.
C28_Witness ==
    /\ pc["main"] = "connect_started"
    /\ last.name = "position"
    /\ last.exc = "AttributeError"
    /\ IsNone(contract_registry)
    /\ readers = 0
    /\ Len(table_writers["accounts_positions"]) = 1

\* The requests a step has added to the open transport.
NewlySent == IF IsPrefix(sent, sent') THEN SubSeq(sent', Len(sent) + 1, Len(sent')) ELSE sent'
MarketRulesRequested(requests) ==
    LET RECURSIVE from(_)
        from(i) == IF i > Len(requests) THEN <<>>
                   ELSE IF requests[i].req = "reqMarketRule"
                        THEN <<requests[i].id>> \o from(i + 1)
                        ELSE from(i + 1)
    IN  from(1)

\* The ids of a list that are not in the registered set, as numbers.
Unregistered(rules, registered) ==
    LET rest == SelectSeq(rules, LAMBDA rule : rule \notin registered)
    IN  [i \in DOMAIN rest |-> IntOfStr[rest[i]]]

\* C29: the contract details of a contractDetails event make
\* request_market_rules send one reqMarketRule for each listed id that is
\* not in the registered set when the event is dispatched, in list order,
\* and none for an id in the set, and leave the set as it is; a marketRule
\* event appends one row per price increment to market_rules, adds its id to
\* the set and sends nothing; nothing else adds an id to the set.
C29_MarketRuleRequestedUnlessRegistered ==
    /\ [][\A rule \in DOMAIN IntOfStr :
              /\ ~IsNone(registered_market_rules')
              /\ rule \in Val(registered_market_rules')
              /\ (IsNone(registered_market_rules) \/ rule \notin Val(registered_market_rules))
              => /\ dispatched' = dispatched + 1
                 /\ last'.name = "marketRule"
                 /\ StrOfInt[last'.args[1]] = rule]_vars
    /\ [][dispatched' = dispatched + 1 /\ last'.exc = "" =>
             /\ last'.name = "contractDetails" =>
                    /\ MarketRulesRequested(NewlySent) =
                           Unregistered(last'.args[2].marketRuleIds, Val(registered_market_rules))
                    /\ registered_market_rules' = registered_market_rules
             /\ last'.name = "marketRule" =>
                    /\ registered_market_rules' =
                           Some(Val(registered_market_rules) \cup {StrOfInt[last'.args[1]]})
                    /\ Len(table_writers'["market_rules"]) =
                           Len(table_writers["market_rules"]) + Len(last'.args[2])
                    /\ \A i \in DOMAIN last'.args[2] :
                           table_writers'["market_rules"][Len(table_writers["market_rules"]) + i] =
                               <<StrOfInt[last'.args[1]], logger_vals(last'.args[2][i])>>
                    /\ sent' = sent]_vars

\* Rule 26 is registered and was requested once; the contract details that
\* list 26 and 240 then made request_market_rules request 240 only.
C29_Witness ==
    /\ last.name = "contractDetails"
    /\ last.exc = ""
    /\ last.args[2].marketRuleIds = <<"26", "240">>
    /\ ~IsNone(registered_market_rules)
    /\ Val(registered_market_rules) = {"26"}
    /\ MarketRulesRequested(sent) = <<26, 240>>
    /\ Len(table_writers["market_rules"]) = 2

\* The non-empty entries of an account list, in list order, and the
\* subscriptions to their account updates.
NonEmptyAccounts(accountsList) ==
    SelectSeq(SplitAccounts(accountsList), LAMBDA account : account # "")
AccountSubscriptions(accountsList) ==
    [i \in DOMAIN NonEmptyAccounts(accountsList) |->
        Request("reqAccountUpdates", -1, <<TRUE, NonEmptyAccounts(accountsList)[i]>>)]

\* The managedAccounts callback of the client: one accounts_managed row and
\* one subscription per non-empty entry, in list order, and nothing else.
C30_ClientAccountsSubscribed ==
    [][dispatched' = dispatched + 1 /\ last'.name = "managedAccounts" =>
          /\ last'.exc = ""
          /\ NewlySent = AccountSubscriptions(last'.args[1])
          /\ table_writers'["accounts_managed"] =
                 table_writers["accounts_managed"] \o
                     [i \in DOMAIN NonEmptyAccounts(last'.args[1]) |->
                         <<NonEmptyAccounts(last'.args[1])[i]>>]]_vars

\* C30: a managedAccounts event appends one accounts_managed row and sends
\* one reqAccountUpdates(subscribe=True) per non-empty account of its list,
\* in list order, and neither for an empty entry; a secondary listener sends
\* the same subscriptions through its client.
C30_AccountsSubscribed ==
    /\ C30_ClientAccountsSubscribed
    /\ [](last.name = "listener.managedAccounts" =>
             last.exc = "" /\ last.reqs = AccountSubscriptions(last.args[1]))

\* A secondary listener was handed a list with a trailing comma and has
\* subscribed to the updates of the empty account.
C30_Witness ==
    /\ last.name = "listener.managedAccounts"
    /\ last.args[1] = <<"DU1", "">>
    /\ Len(last.reqs) = 2
    /\ last.reqs[2] = Request("reqAccountUpdates", -1, <<TRUE, "">>)

\* The client was handed the same list: one row, one subscription.
C30_ClientWitness ==
    /\ last.name = "managedAccounts"
    /\ last.args[1] = <<"DU1", "">>
    /\ table_writers["accounts_managed"] = <<<<"DU1">>>>
    /\ sent[Len(sent)] = Request("reqAccountUpdates", -1, <<TRUE, "DU1">>)
    /\ Cardinality({i \in DOMAIN sent : sent[i].req = "reqAccountUpdates"}) = 1

\* ------------------------------------------------------------------ C31

\* The requests of a step that are new.
BarsOpened == {r \in {NewlySent[i] : i \in DOMAIN NewlySent} : r.req = "reqRealTimeBars"}

\* C31: a realtimeBar event for a request id whose bar size is recorded
\* appends exactly one row to bars_realtime, whose end is the reported start
\* plus the recorded size, and returns normally; and every reqRealTimeBars
\* that goes out records its bar size for its request id, replacing an
\* earlier one, so that later bars use the new size.
C31_RealtimeBarEnd ==
    /\ [][/\ dispatched' = dispatched + 1
          /\ last'.name = "realtimeBar"
          /\ ~IsNone(realtime_bar_sizes)
          /\ last'.args[1] \in DOMAIN Val(realtime_bar_sizes)
          => /\ last'.exc = ""
             /\ table_writers'["bars_realtime"] =
                  Append(table_writers["bars_realtime"],
                         <<last'.args[1],
                           RealTimeBar(last'.args[2],
                                       last'.args[2] + Val(realtime_bar_sizes)[last'.args[1]])>>)]_vars
    /\ [][IsPrefix(sent, sent')
          => \A r \in BarsOpened :
                /\ ~IsNone(realtime_bar_sizes')
                /\ r.id \in DOMAIN Val(realtime_bar_sizes')
                /\ Val(realtime_bar_sizes')[r.id] = r.arg[2]]_vars

\* Request 7 was opened with 5 seconds and reopened with 30; the bar that
\* came after starts at 100 and ends at 130.
C31_Witness ==
    /\ result["main"].op = "reqRealTimeBars"
    /\ result["main"].exc = ""
    /\ result["main"].arg = Some(<<7, 5>>)
    /\ result["worker"].op = "reqRealTimeBars"
    /\ result["worker"].exc = ""
    /\ result["worker"].arg = Some(<<7, 30>>)
    /\ ~IsNone(realtime_bar_sizes)
    /\ Val(realtime_bar_sizes)[7] = 30
    /\ last.name = "realtimeBar"
    /\ last.exc = ""
    /\ table_writers["bars_realtime"] = <<<<7, RealTimeBar(100, 130)>>>>

\* ------------------------------------------------------------------ C32

Recorded(sizes, reqId) == ~IsNone(sizes) /\ reqId \in DOMAIN Val(sizes)

\* The caller whose step this is runs a reqRealTimeBars that began on the
\* connection that is open now.
CallWithinConnection(c) ==
    /\ pc'[c] # pc[c]
    /\ connected
    /\ \/ pc[c] = "idle"
       \/ pc[c] = "bars_second" /\ result[c].val = Some(connects)

\* C32: when a reqRealTimeBars call made within one connection writes its
\* request to IB, the bar size of its request id is recorded; a recorded
\* request id stays recorded for as long as the connection is open; and a
\* realtimeBar event for a request id with no recorded size appends no row.
C32_BarSizeRecordedBeforeSend ==
    /\ [][\A c \in Callers : \A r \in BarsOpened :
             IsPrefix(sent, sent') /\ CallWithinConnection(c)
             => Recorded(realtime_bar_sizes', r.id)]_vars
    /\ [][\A reqId \in BarRequestIds :
             connected /\ connected' /\ connects' = connects
             /\ Recorded(realtime_bar_sizes, reqId)
             => Recorded(realtime_bar_sizes', reqId)]_vars
    /\ [][/\ dispatched' = dispatched + 1
          /\ last'.name = "realtimeBar"
          /\ ~Recorded(realtime_bar_sizes, last'.args[1])
          => /\ table_writers' = table_writers
             /\ last'.exc \in {"KeyError", "TypeError"}]_vars

\* Request 7 went out on the open connection, and the bar that followed
\* found its size.
C32_Witness ==
    /\ connected
    /\ \E i \in DOMAIN sent : sent[i].req = "reqRealTimeBars" /\ sent[i].id = 7
    /\ Recorded(realtime_bar_sizes, 7)
    /\ last.name = "realtimeBar"
    /\ last.exc = ""
    /\ Len(table_writers["bars_realtime"]) = 1

\* Request 7 was opened on the first connection; a bar for it on the second
\* connection finds the emptied map and appends nothing.
C32_WitnessEmptied ==
    /\ connects = 2
    /\ connected
    /\ result["worker"].op = "reqRealTimeBars"
    /\ result["worker"].exc = ""
    /\ result["worker"].val = Some(1)
    /\ pc["worker"] = "idle"
    /\ ~IsNone(realtime_bar_sizes)
    /\ last.name = "realtimeBar"
    /\ last.exc = "KeyError"
    /\ table_writers["bars_realtime"] = <<>>

\* ------------------------------------------------------------------ C33

\* The table of a contract-bearing event, its rows, and its contracts in the
\* order the handler hands them to the registry.
BearingTable(ev) ==
    CASE ev.name = "position" -> "accounts_positions"
      [] ev.name = "updatePortfolio" -> "accounts_portfolio"
      [] ev.name = "symbolSamples" -> "contracts_matching"
      [] ev.name = "openOrder" -> "orders_open"
      [] ev.name = "completedOrder" -> "orders_completed"
      [] ev.name = "execDetails" -> "orders_exec_details"

BearingRows(ev) ==
    CASE ev.name = "position" -> <<<<ev.args[1], ev.args[2], 10, 4>>>>
      [] ev.name = "updatePortfolio" -> <<<<ev.args[2], ev.args[1], 10, 5, 50, 4, 10, 0>>>>
      [] ev.name = "symbolSamples" ->
             [i \in DOMAIN ev.args[2] |->
                 <<ev.args[1], ev.args[2][i].contract, ev.args[2][i].derivativeSecTypes>>]
      [] ev.name = "openOrder" ->
             IF ev.args[1] = ev.args[3].orderId
             THEN <<<<ev.args[2], ev.args[3], ev.args[4]>>>> ELSE <<>>
      [] ev.name = "completedOrder" -> <<<<ev.args[1], ev.args[2], ev.args[3]>>>>
      [] ev.name = "execDetails" -> <<<<ev.args[1], ev.args[2], ev.args[3]>>>>

BearingContracts(ev) ==
    CASE ev.name = "position" -> <<ev.args[2]>>
      [] ev.name = "updatePortfolio" -> <<ev.args[1]>>
      [] ev.name = "symbolSamples" -> [i \in DOMAIN ev.args[2] |-> ev.args[2][i].contract]
      [] ev.name = "openOrder" ->
             IF ev.args[1] = ev.args[3].orderId THEN <<ev.args[2]>> ELSE <<>>
      [] ev.name = "completedOrder" -> <<ev.args[1]>>
      [] ev.name = "execDetails" -> <<ev.args[2]>>

\* The contracts a sequence of registry calls asks IB for, given the
\* fingerprints the registry knows: the first of each unknown fingerprint.
RECURSIVE LookupsDue(_, _)
LookupsDue(known, contracts) ==
    IF contracts = <<>> THEN <<>>
    ELSE IF Fingerprint(Head(contracts)) \in known THEN LookupsDue(known, Tail(contracts))
    ELSE <<Head(contracts)>> \o
         LookupsDue(known \cup {Fingerprint(Head(contracts))}, Tail(contracts))

BearingExc(ev) ==
    IF ev.name = "openOrder" /\ ev.args[1] # ev.args[3].orderId
    THEN "Exception: Order IDs do not match" ELSE ""

\* C33: the dispatch of a contract-bearing event appends the event's row to
\* its own table before it calls the registry (without a registry the row of
\* the first contract is there and the call raises); with a registry every
\* contract of the event gets its row and one registry call, which sends at
\* most one contract-details request (for a fingerprint the registry does
\* not know) and leaves the entry pending: the handler returns without the
\* resolution, and changes no entry that was pending before.
C33_RowThenNonBlockingLookup ==
    [][DispatchesBearing =>
          LET ev == last'
              rows == BearingRows(ev)
              ks == BearingContracts(ev)
          IN  IF IsNone(contract_registry)
              THEN /\ table_writers' =
                        [table_writers EXCEPT ![BearingTable(ev)] =
                             @ \o SubSeq(rows, 1, IF rows = <<>> THEN 0 ELSE 1)]
                   /\ ev.exc = IF rows = <<>> THEN BearingExc(ev) ELSE "AttributeError"
                   /\ sent' = sent
              ELSE LET reg == Val(contract_registry)
                       due == LookupsDue(DOMAIN reg, ks)
                   IN  /\ table_writers' =
                            [table_writers EXCEPT ![BearingTable(ev)] = @ \o rows]
                       /\ ev.exc = BearingExc(ev)
                       /\ IsPrefix(sent, sent')
                       /\ Len(NewlySent) = Len(due)
                       /\ \A i \in DOMAIN due :
                              /\ NewlySent[i].req = "reqContractDetails"
                              /\ NewlySent[i].arg = due[i]
                       /\ ~IsNone(contract_registry')
                       /\ \A fp \in DOMAIN reg : Val(contract_registry')[fp] = reg[fp]
                       /\ \A i \in DOMAIN ks :
                              /\ Fingerprint(ks[i]) \in DOMAIN Val(contract_registry')
                              /\ Fingerprint(ks[i]) \notin DOMAIN reg =>
                                     IsPending(Val(contract_registry')[Fingerprint(ks[i])])]_vars

\* A position for AAPL asked for the contract's details; while that lookup
\* is pending, an execution for IBM has been dispatched and has asked for
\* its own.
C33_Witness ==
    /\ last.name = "execDetails"
    /\ last.exc = ""
    /\ Len(table_writers["accounts_positions"]) = 1
    /\ Len(table_writers["orders_exec_details"]) = 1
    /\ ~IsNone(contract_registry)
    /\ DOMAIN Val(contract_registry) = {"AAPL", "IBM"}
    /\ IsPending(Val(contract_registry)["AAPL"])
    /\ IsPending(Val(contract_registry)["IBM"])
    /\ LookupsSent("AAPL") = 1
    /\ LookupsSent("IBM") = 1

\* ------------------------------------------------------------------ C34

\* The step writes a reqIds request to the transport.
SendsReqIds ==
    /\ IsPrefix(sent, sent')
    /\ \E i \in DOMAIN NewlySent : NewlySent[i].req = "reqIds"

\* C34: in a call of next_order_id that runs within one connection, the
\* claim of the caller is in the Order-ID Queue (or has its value already)
\* when the call writes reqIds to the transport, and it stays in the queue
\* until a nextValidId gives it its value: a nextValidId dispatched while
\* the caller waits finds a pending claim and is not dropped.
C34_ClaimBeforeReqIds ==
    [][(connects = 1 /\ connected) =>
          \A c \in Callers :
              /\ (SendsReqIds /\ pc'[c] # pc[c]) =>
                     /\ pc[c] = "reqIds"
                     /\ (c \in Queued \/ ~IsNone(handle[c]))
              /\ (pc[c] = "get" /\ IsNone(handle[c])) =>
                     /\ c \in Queued
                     /\ Dispatches("nextValidId") =>
                            \E d \in Queued :
                                /\ IsNone(handle[d])
                                /\ handle'[d] = Some(last'.args[1])]_vars

\* The worker's reqIds is on the transport, its claim is pending, and no
\* nextValidId has been dispatched yet.
C34_Witness ==
    /\ connects = 1 /\ connected
    /\ dispatched = 0
    /\ pc["worker"] = "get"
    /\ pc["main"] = "idle"
    /\ ReqIdsSent = 1
    /\ order_id_queue = Some(<<"worker">>)
    /\ IsNone(handle["worker"])

\* ------------------------------------------------------------------ C35

\* The client is not connected: it was never connected, or a disconnect has
\* returned.
NotConnected == ~connected /\ \A c \in Callers : pc[c] # "disconnecting"

\* The step is the start of a call of next_order_id by c.
StartsNextOrderId(c) ==
    /\ pc[c] = "idle"
    /\ \/ pc'[c] = "reqIds"
       \/ result'[c].op = "next_order_id" /\ result'[c] # result[c]

\* C35: a call of next_order_id on a client that is not connected ends at
\* once with a raised error (the client has no Order-ID Queue): nothing is
\* written to the transport, no claim is made and the caller does not wait.
C35_NextOrderIdNotConnected ==
    [][\A c \in Callers :
          (NotConnected /\ StartsNextOrderId(c)) =>
              /\ result'[c] = Returned("next_order_id", None, "AttributeError", None)
              /\ pc'[c] = "idle"
              /\ sent' = sent
              /\ order_id_queue' = order_id_queue
              /\ IsNone(order_id_queue)
              /\ handle' = handle]_vars

\* After a session that was connected and disconnected, the worker's
\* next_order_id has raised; no reqIds was ever written.
C35_Witness ==
    /\ connects = 1
    /\ ~connected
    /\ result["main"].op = "disconnect"
    /\ \A c \in Callers : pc[c] = "idle"
    /\ IsNone(order_id_queue)
    /\ result["worker"] = Returned("next_order_id", None, "AttributeError", None)
    /\ ReqIdsSent = 0

\* ------------------------------------------------------------------ C36

\* The table of each listener event.
ListenerTable(name) ==
    CASE name = "listener.updateAccountValue" -> "listener.account_value"
      [] name = "listener.updatePortfolio" -> "listener.portfolio"
      [] name = "listener.accountSummary" -> "listener.account_summary"
      [] name = "listener.position" -> "listener.positions"
      [] name = "listener.updateNewsBulletin" -> "listener.news_bulletins"
      [] name = "listener.execDetails" -> "listener.exec_details"
      [] name = "listener.commissionReport" -> "listener.commission_report"
      [] name = "listener.newsProviders" -> "listener.news_providers"
      [] name = "listener.completedOrder" -> "listener.orders_completed"
      [] name = "listener.orderStatus" -> "listener.orders_status"
      [] name = "listener.openOrder" -> "listener.orders_open"
      [] name = "listener.historicalNews" -> "listener.historical_news"

ListenerEvents ==
    {"listener.updateAccountValue", "listener.updatePortfolio", "listener.accountSummary",
     "listener.position", "listener.updateNewsBulletin", "listener.execDetails",
     "listener.commissionReport", "listener.newsProviders", "listener.completedOrder",
     "listener.orderStatus", "listener.openOrder", "listener.historicalNews"}

\* The rows an event is to add: one, or one per provider.
ListenerRowsDue(ev) == IF ev.name = "listener.newsProviders" THEN Len(ev.args[1]) ELSE 1

ListenerEventLogged(events) ==
    (dispatched' = dispatched + 1 /\ last'.name \in events) =>
        /\ last'.exc = ""
        /\ Len(table_writers'[ListenerTable(last'.name)]) =
               Len(table_writers[ListenerTable(last'.name)]) + ListenerRowsDue(last')
        /\ IsPrefix(table_writers[ListenerTable(last'.name)],
                    table_writers'[ListenerTable(last'.name)])
        /\ \A n \in TableNames \ {ListenerTable(last'.name)} :
               table_writers'[n] = table_writers[n]

\* C36: every event of _IbListener that is no end marker appends exactly one
\* row (one per provider for newsProviders) to its own table writer, changes
\* no other table, and its handler returns normally.
C36_ListenerOneRowPerEvent == [][ListenerEventLogged(ListenerEvents)]_vars

\* The handlers that hand the receiver to the base-class hook and write as
\* many values as their table has columns do so.
ListenerSoundEvents ==
    {"listener.updatePortfolio", "listener.accountSummary", "listener.commissionReport",
     "listener.newsProviders", "listener.completedOrder", "listener.orderStatus"}
C36_SoundHandlersLog == [][ListenerEventLogged(ListenerSoundEvents)]_vars

\* A position event has been handed to the listener: the handler raised and
\* no table has a row.
C36_Witness ==
    /\ last.name = "listener.position"
    /\ last.exc = "TypeError"
    /\ dispatched = 1
    /\ \A n \in TableNames : table_writers[n] = <<>>

\* ------------------------------------------------------------------ C37

\* The request ids of the lookups the registry is waiting for.
OutstandingLookups ==
    IF IsNone(contract_registry) THEN {}
    ELSE {Val(contract_registry)[fp].req_id :
              fp \in {f \in DOMAIN Val(contract_registry) : IsPending(Val(contract_registry)[f])}}

\* C37: an error event whose request id is not that of an outstanding
\* lookup leaves the Contract Registry as it is: no entry is added, failed
\* or overwritten, and a resolved entry stays resolved.
C37_UnrelatedErrorKeepsRegistry ==
    [][(Dispatches("error") /\ last'.args[1] \notin OutstandingLookups) =>
          contract_registry' = contract_registry]_vars

\* The lookup for AAPL was resolved; an error event under the lookup's own
\* request id came afterwards and the entry is still resolved.
C37_Witness ==
    /\ last.name = "error"
    /\ last.exc = ""
    /\ ~IsNone(contract_registry)
    /\ "AAPL" \in DOMAIN Val(contract_registry)
    /\ Val(contract_registry)["AAPL"].req_id = last.args[1]
    /\ ~IsNone(Val(contract_registry)["AAPL"].details)
    /\ IsNone(Val(contract_registry)["AAPL"].error)
    /\ Len(table_writers["errors"]) = 1

\* ------------------------------------------------------------------ C38

\* C38: a nextValidId event dispatched while the client has no Order-ID
\* Queue returns normally and changes nothing: the value is kept nowhere.
\* A caller of next_order_id gets its value only from a nextValidId that is
\* dispatched while its claim is in the queue, so never from an event that
\* was ignored before.
C38_NextValidIdWithoutQueue ==
    [][/\ (Dispatches("nextValidId") /\ IsNone(order_id_queue)) =>
              /\ last'.exc = ""
              /\ readers' = readers
              /\ UNCHANGED <<session, handle, table_writers, sent, unique_id, pc, result>>
       /\ \A c \in Callers :
              (IsNone(handle[c]) /\ ~IsNone(handle'[c])) =>
                  /\ Dispatches("nextValidId")
                  /\ c \in Queued
                  /\ handle'[c] = Some(last'.args[1])]_vars

\* IB's first nextValidId came after the reader thread was started and
\* before _subscribe made the queue.
C38_Witness ==
    /\ connects = 1
    /\ pc["main"] = "connect_started"
    /\ readers = 1
    /\ IsNone(order_id_queue)
    /\ last.name = "nextValidId"
    /\ last.exc = ""
    /\ dispatched = 1
    /\ \A c \in Callers : IsNone(handle[c])

\* The same after a disconnect has discarded the queue, the reader thread
\* still running.
C38_WitnessDiscarded ==
    /\ connects = 1
    /\ ~connected
    /\ result["main"].op = "disconnect"
    /\ pc["main"] = "idle"
    /\ readers = 1
    /\ IsNone(order_id_queue)
    /\ last.name = "nextValidId"
    /\ last.exc = ""
    /\ dispatched = 1

\* ------------------------------------------------------------------ C39

\* The dispatch of a contract-details event whose marketRuleIds is the empty
\* string, in a client that has its structures.
DispatchesEmptyRules ==
    /\ dispatched' = dispatched + 1
    /\ last'.name \in {"contractDetails", "bondContractDetails"}
    /\ last'.args[2].marketRuleIds = <<>>
    /\ ~IsNone(contract_registry)
    /\ ~IsNone(registered_market_rules)

\* What such a dispatch does to the table, the registry and the transport.
EmptyRulesEffects ==
    /\ table_writers' = [table_writers EXCEPT !["contracts_details"] =
                            Append(@, <<last'.args[1], last'.args[2]>>)]
    /\ ~IsNone(contract_registry')
    /\ Fingerprint(last'.args[2].contract) \in DOMAIN Val(contract_registry')
    /\ Val(contract_registry')[Fingerprint(last'.args[2].contract)].details = Some(last'.args[2])
    /\ sent' = sent

\* C39: a contractDetails or bondContractDetails event with an empty
\* marketRuleIds string appends one row to contracts_details, records the
\* resolution in the registry, sends no reqMarketRule, and its handler
\* returns normally.
C39_EmptyMarketRulesAccepted ==
    [][DispatchesEmptyRules => EmptyRulesEffects /\ last'.exc = ""]_vars

\* The row, the resolution and the silence on the transport are as stated.
C39_EmptyRulesRowAndRegistry == [][DispatchesEmptyRules => EmptyRulesEffects]_vars

\* Contract details with no market rule were dispatched in a connected
\* client: the row and the resolution are there, the handler raised and the
\* reader thread is gone.
C39_Witness ==
    /\ last.name = "contractDetails"
    /\ last.args[2].marketRuleIds = <<>>
    /\ last.exc = "ValueError"
    /\ connected
    /\ readers = 0
    /\ registered_market_rules = Some({})
    /\ Len(table_writers["contracts_details"]) = 1
    /\ ~IsNone(contract_registry)
    /\ Val(contract_registry)["IBM"].details = Some(last.args[2])

\* ------------------------------------------------------------------ C40

\* A table writer whose column names and column types are equally many.
SchemaAgrees(name) == Len(Columns(name)) = Len(ColumnTypes(name))

\* The dispatch of one of the given listener events goes to a table built
\* with as many names as types and does not fail on the width of its row.
ListenerEventFits(events) ==
    (dispatched' = dispatched + 1 /\ last'.name \in events) =>
        /\ SchemaAgrees(ListenerTable(last'.name))
        /\ last'.exc # "SchemaMismatch"

\* C40: every table writer is constructed with as many column names as
\* column types and every handler passes its table writer as many values as
\* the table has columns, so that no dispatch of a well-formed event fails
\* with a schema mismatch; stated here for the events of _IbListener, whose
\* exec_details and orders_open tables the claim names.
C40_SchemaArity == [][ListenerEventFits(ListenerEvents)]_vars

\* Every listener event other than execDetails fits its table.
C40_OtherListenerEventsFit ==
    [][ListenerEventFits(ListenerEvents \ {"listener.execDetails"})]_vars

\* The tables of IbTwsClient are built with as many names as types, and no
\* event handed to the client fails on the width of a row.
C40_ClientSchemasAgree ==
    /\ \A n \in TableNames \ ListenerTables : SchemaAgrees(n)
    /\ last.exc # "SchemaMismatch"

\* An execDetails event has been handed to the listener: its table has one
\* name fewer than types, the row of the handler was refused for its width
\* and the table is empty.
C40_Witness ==
    /\ last.name = "listener.execDetails"
    /\ last.exc = "SchemaMismatch"
    /\ dispatched = 1
    /\ Len(ColumnTypes("listener.exec_details")) = Len(Columns("listener.exec_details")) + 1
    /\ table_writers["listener.exec_details"] = <<>>

====
